---------------------------- MODULE Spec2Model ----------------------------
(***************************************************************************)
(* Verification model of FreePeak/db-mcp-server.                           *)
(*                                                                         *)
(*   Part I   the Connection Manager (pkg/db, type Manager)                *)
(*   Part II  the transaction tools of pkg/dbtools: the dbTransaction tool *)
(*            (handleTransaction, registry activeTransactions) and the     *)
(*            per-database transaction tool (handleTransactionForDatabase) *)
(*            and the schema explorer (executeWithFallbacks, getFullSchema)*)
(*                                                                         *)
(* Every request runs on its own goroutine; a handler is split into steps  *)
(* at the points where it touches shared state or calls the driver.        *)
(***************************************************************************)
EXTENDS Integers, Sequences, FiniteSets, TLC

(***************************************************************************)
(* Bounds of the model.                                                    *)
(***************************************************************************)
\* handles (pools) the drivers hand out in one run
MaxHandles == 2
\* connections in one configuration document
MaxConns == 2

\* goroutines calling the Connection Manager
Procs == {"g1", "g2"}
\* the goroutine that also makes the calls that hold the write lock from
\* their first step to their last (SetLazyLoading, Connect, Close, CloseAll):
\* such calls never overlap, so one caller of them reaches every state.  It
\* is also the caller of ListDatabases.
Admins == {"g1"}
\* connection identifiers
IDs == {"a", "b", "c"}

(***************************************************************************)
(* Helpers for Go maps: a map is a function on the set of its keys.        *)
(***************************************************************************)
EmptyMap == [k \in {} |-> 0]

Put(m, k, v) == [x \in (DOMAIN m) \cup {k} |-> IF x = k THEN v ELSE m[x]]

Del(m, k) == [x \in (DOMAIN m) \ {k} |-> m[x]]

Range(f) == {f[x] : x \in DOMAIN f}

(***************************************************************************)
(* Part I.  Connection Manager.                                            *)
(***************************************************************************)
VARIABLES
  configs,      \* Manager.configs: id -> dialect tag
  connections,  \* Manager.connections: id -> handle
  lazyLoading,  \* Manager.lazyLoading
  mu,           \* Manager.mu: [writer, readers]
  nextHandle,   \* number of pools opened so far; handles are 1..nextHandle
  openPools,    \* handles whose pool is open
  loads,        \* number of LoadConfig calls made
  mpc,          \* per goroutine: position in its current Manager call
  mid,          \* per goroutine: the id argument of its call
  mtodo,        \* per goroutine: map entries its range loop has yet to visit
  mret,         \* per goroutine: the value its call is returning
  mattempts,    \* per goroutine: the open attempts (in CloseAll: the failed
                \* closes) of its call, in order
  mpre          \* per goroutine: Manager.connections when its call began

mgrVars == <<configs, connections, lazyLoading, mu, nextHandle, openPools,
             loads, mpc, mid, mtodo, mret, mattempts, mpre>>

\* history kept for the properties of concurrent GetDatabase calls
VARIABLE
  odOverlapped  \* per goroutine: whether, since its GetDatabase call began,
                \* another call made an open attempt for the same id, and
                \* how it went: "none", "failed", or "opened" once one succeeded

NoProc == "none"
NoID == ""
NoValue == [kind |-> "none"]

OkValue == [kind |-> "ok"]
HandleValue(h) == [kind |-> "handle", handle |-> h]
TypeValue(t) == [kind |-> "type", type |-> t]
ListValue(s) == [kind |-> "list", ids |-> s]
ErrValue(what, id) == [kind |-> "error", what |-> what, id |-> id]

\* the dialect tags LoadConfig accepts
SupportedTypes == {"mysql", "postgres", "oracle", "sqlite"}

\* one element of the "connections" array of a configuration document
ConfigEntries ==
  {[id |-> "a", type |-> "mysql", path |-> ""],
   [id |-> "b", type |-> "mysql", path |-> ""],
   [id |-> "c", type |-> "sqlite", path |-> "/db"],
   [id |-> "", type |-> "mysql", path |-> ""],
   [id |-> "a", type |-> "mssql", path |-> ""],
   [id |-> "c", type |-> "sqlite", path |-> ""]}

RECURSIVE SeqsUpTo(_, _)
SeqsUpTo(S, n) ==
  IF n = 0 THEN {<<>>}
  ELSE LET shorter == SeqsUpTo(S, n - 1)
       IN shorter \cup {Append(s, x) : s \in {t \in shorter : Len(t) = n - 1}, x \in S}

ConfigDocs == SeqsUpTo(ConfigEntries, MaxConns)

ValidEntry(conn) ==
  /\ conn.id # ""
  /\ conn.type \in SupportedTypes
  /\ (conn.type = "sqlite" => conn.path # "")

\* the loop of LoadConfig: entries are stored one by one, up to the first
\* one that fails validation
RECURSIVE StoreEntries(_, _)
StoreEntries(cfgs, doc) ==
  IF doc = <<>> THEN cfgs
  ELSE IF ~ValidEntry(Head(doc)) THEN cfgs
  ELSE StoreEntries(Put(cfgs, Head(doc).id, Head(doc).type), Tail(doc))

Unlocked == mu.writer = NoProc /\ mu.readers = {}

\* LoadConfig takes no lock: InitDatabase calls it, once for a manager,
\* before any request is served, which the guards state
LoadConfig(doc) ==
  /\ loads = 0
  /\ Unlocked
  /\ \A p \in Procs : mpc[p] = "idle"
  /\ configs' = StoreEntries(configs, doc)
  /\ loads' = loads + 1
  /\ UNCHANGED <<connections, lazyLoading, mu, nextHandle, openPools, mpc,
                 mid, mtodo, mret, mattempts, mpre>>

SetLazyLoading(p, enabled) ==
  /\ mpc[p] = "idle"
  /\ Unlocked
  /\ lazyLoading' = enabled
  /\ UNCHANGED <<configs, connections, mu, nextHandle, openPools, loads, mpc,
                 mid, mtodo, mret, mattempts, mpre>>

\* a ListDatabases that lists the connected ids instead of the configured
\* ones; ListDatabasesIsConfigured holds of the code and not of this one
ListConnected(p) ==
  /\ mpc[p] = "idle"
  /\ mu.writer = NoProc
  /\ mu' = [mu EXCEPT !.readers = @ \cup {p}]
  /\ mret' = [mret EXCEPT ![p] = ListValue(DOMAIN connections)]
  /\ mpc' = [mpc EXCEPT ![p] = "list_ret"]
  /\ UNCHANGED <<configs, connections, lazyLoading, nextHandle, openPools,
                 loads, mid, mtodo, mattempts, mpre>>

ListDatabases(p) ==
  /\ mpc[p] = "idle"
  /\ mu.writer = NoProc
  /\ mu' = [mu EXCEPT !.readers = @ \cup {p}]
  /\ mret' = [mret EXCEPT ![p] = ListValue(DOMAIN configs)]
  /\ mpc' = [mpc EXCEPT ![p] = "list_ret"]
  /\ UNCHANGED <<configs, connections, lazyLoading, nextHandle, openPools,
                 loads, mid, mtodo, mattempts, mpre>>

\* a GetDatabaseType that knows the dialect of connected ids only;
\* GetDatabaseTypeReadsConfig holds of the code and not of this one
TypeOfConnected(p, id) ==
  /\ mpc[p] = "idle"
  /\ mu.writer = NoProc
  /\ mu' = [mu EXCEPT !.readers = @ \cup {p}]
  /\ mid' = [mid EXCEPT ![p] = id]
  /\ mret' = [mret EXCEPT ![p] =
                IF id \in DOMAIN connections THEN TypeValue(configs[id])
                ELSE ErrValue("config not found", id)]
  /\ mpc' = [mpc EXCEPT ![p] = "type_ret"]
  /\ UNCHANGED <<configs, connections, lazyLoading, nextHandle, openPools,
                 loads, mtodo, mattempts, mpre>>

GetDatabaseType(p, id) ==
  /\ mpc[p] = "idle"
  /\ mu.writer = NoProc
  /\ mu' = [mu EXCEPT !.readers = @ \cup {p}]
  /\ mid' = [mid EXCEPT ![p] = id]
  /\ mret' = [mret EXCEPT ![p] =
                IF id \in DOMAIN configs THEN TypeValue(configs[id])
                ELSE ErrValue("config not found", id)]
  /\ mpc' = [mpc EXCEPT ![p] = "type_ret"]
  /\ UNCHANGED <<configs, connections, lazyLoading, nextHandle, openPools,
                 loads, mtodo, mattempts, mpre>>

\* a sampling that takes every configured id as a sample;
\* LazyConnectOpensOnePerDialect holds of the code and not with this one
SampleEveryId(cfgs) == {[id \in DOMAIN cfgs |-> id]}

\* one dialect-keyed sample per configured dialect (typesToCheck): the range
\* loop over Manager.configs meets the ids in any order, so any id of a
\* dialect may become its sample
Samplings(cfgs) ==
  {s \in [Range(cfgs) -> DOMAIN cfgs] : \A t \in Range(cfgs) : cfgs[s[t]] = t}

\* createAndConnectDatabase: NewDatabase, then Connect (open and ping).  On
\* success a new pool is open; on failure Connect has closed what it opened.
createAndConnectDatabase(ok) ==
  IF ok
  THEN /\ nextHandle < MaxHandles
       /\ nextHandle' = nextHandle + 1
       /\ openPools' = openPools \cup {nextHandle + 1}
  ELSE UNCHANGED <<nextHandle, openPools>>

\* Connect: takes the write lock and chooses the branch
Connect(p) ==
  /\ mpc[p] = "idle"
  /\ Unlocked
  /\ mu' = [mu EXCEPT !.writer = p]
  /\ mpre' = [mpre EXCEPT ![p] = connections]
  /\ \E s \in Samplings(configs) :
       LET todo == IF lazyLoading THEN Range(s) ELSE DOMAIN configs
       IN /\ mtodo' = [mtodo EXCEPT ![p] = todo]
          /\ mpc' = [mpc EXCEPT ![p] =
                       IF todo = {} THEN "connect_ret"
                       ELSE IF lazyLoading THEN "connect_lazy"
                       ELSE "connect_eager"]
          /\ mret' = [mret EXCEPT ![p] = IF todo = {} THEN OkValue ELSE NoValue]
  /\ UNCHANGED <<configs, connections, lazyLoading, nextHandle, openPools,
                 loads, mid, mattempts>>

\* Connect, lazy branch: one turn of the loop over typesToCheck
ConnectLazyStep(p) ==
  /\ mpc[p] = "connect_lazy"
  /\ \E id \in mtodo[p], ok \in BOOLEAN :
       LET rest == mtodo[p] \ {id}
       IN /\ createAndConnectDatabase(ok)
          /\ mattempts' = [mattempts EXCEPT ![p] = Append(@, [id |-> id, ok |-> ok])]
          /\ IF ok
             THEN /\ connections' = Put(connections, id, nextHandle + 1)
                  /\ mtodo' = [mtodo EXCEPT ![p] = rest]
                  /\ mpc' = [mpc EXCEPT ![p] =
                               IF rest = {} THEN "connect_ret" ELSE "connect_lazy"]
                  /\ mret' = [mret EXCEPT ![p] =
                                IF rest = {} THEN OkValue ELSE NoValue]
             ELSE /\ mret' = [mret EXCEPT ![p] = ErrValue("health check failed", id)]
                  /\ mpc' = [mpc EXCEPT ![p] = "connect_ret"]
                  /\ UNCHANGED <<connections, mtodo>>
  /\ UNCHANGED <<configs, lazyLoading, mu, loads, mid, mpre>>

\* an eager loop that goes on to the next id after a failure, keeping the
\* first error; EagerConnectStopsAtFirstFailure holds of the code and not of
\* this one
ConnectEagerKeepGoing(p) ==
  /\ mpc[p] = "connect_eager"
  /\ \E id \in mtodo[p], ok \in BOOLEAN :
       LET rest == mtodo[p] \ {id}
           res == IF mret[p].kind = "error" THEN mret[p]
                  ELSE IF ~ok THEN ErrValue("connect failed", id)
                  ELSE IF rest = {} THEN OkValue ELSE NoValue
       IN /\ id \in DOMAIN connections => ok
          /\ IF id \in DOMAIN connections
             THEN UNCHANGED <<connections, nextHandle, openPools, mattempts>>
             ELSE /\ createAndConnectDatabase(ok)
                  /\ mattempts' = [mattempts EXCEPT ![p] =
                                     Append(@, [id |-> id, ok |-> ok])]
                  /\ connections' = IF ok THEN Put(connections, id, nextHandle + 1)
                                    ELSE connections
          /\ mtodo' = [mtodo EXCEPT ![p] = rest]
          /\ mret' = [mret EXCEPT ![p] = res]
          /\ mpc' = [mpc EXCEPT ![p] =
                       IF rest = {} THEN "connect_ret" ELSE "connect_eager"]
  /\ UNCHANGED <<configs, lazyLoading, mu, loads, mid, mpre>>

\* Connect, eager branch: one turn of the loop over Manager.configs
ConnectEagerStep(p) ==
  /\ mpc[p] = "connect_eager"
  /\ \E id \in mtodo[p], ok \in BOOLEAN :
       LET rest == mtodo[p] \ {id}
           done == [mpc EXCEPT ![p] =
                      IF rest = {} THEN "connect_ret" ELSE "connect_eager"]
           res == [mret EXCEPT ![p] = IF rest = {} THEN OkValue ELSE NoValue]
       IN IF id \in DOMAIN connections
          THEN /\ ok
               /\ mtodo' = [mtodo EXCEPT ![p] = rest]
               /\ mpc' = done
               /\ mret' = res
               /\ UNCHANGED <<connections, nextHandle, openPools, mattempts>>
          ELSE /\ createAndConnectDatabase(ok)
               /\ mattempts' = [mattempts EXCEPT ![p] =
                                  Append(@, [id |-> id, ok |-> ok])]
               /\ IF ok
                  THEN /\ connections' = Put(connections, id, nextHandle + 1)
                       /\ mtodo' = [mtodo EXCEPT ![p] = rest]
                       /\ mpc' = done
                       /\ mret' = res
                  ELSE /\ mret' = [mret EXCEPT ![p] = ErrValue("connect failed", id)]
                       /\ mpc' = [mpc EXCEPT ![p] = "connect_ret"]
                       /\ UNCHANGED <<connections, mtodo>>
  /\ UNCHANGED <<configs, lazyLoading, mu, loads, mid, mpre>>

\* a GetDatabase that connects on demand in the eager mode as well;
\* ConnectedAreConfiguredAndEagerGetOpensNothing holds of the code and not
\* of this one
GetDatabaseAlwaysOnDemand(p, id) ==
  /\ mpc[p] = "idle"
  /\ mu.writer = NoProc
  /\ mid' = [mid EXCEPT ![p] = id]
  /\ IF id \in DOMAIN connections
     THEN /\ mret' = [mret EXCEPT ![p] = HandleValue(connections[id])]
          /\ mpc' = [mpc EXCEPT ![p] = "get_ret"]
     ELSE /\ mpc' = [mpc EXCEPT ![p] = "demand_wait"]
          /\ UNCHANGED mret
  /\ UNCHANGED <<configs, connections, lazyLoading, mu, nextHandle, openPools,
                 loads, mtodo, mattempts, mpre>>

\* GetDatabase: the lookup under the read lock and the decision after it
GetDatabase(p, id) ==
  /\ mpc[p] = "idle"
  /\ mu.writer = NoProc
  /\ mid' = [mid EXCEPT ![p] = id]
  /\ IF id \in DOMAIN connections
     THEN /\ mret' = [mret EXCEPT ![p] = HandleValue(connections[id])]
          /\ mpc' = [mpc EXCEPT ![p] = "get_ret"]
     ELSE IF ~lazyLoading
     THEN /\ mret' = [mret EXCEPT ![p] = ErrValue("connection not found", id)]
          /\ mpc' = [mpc EXCEPT ![p] = "get_ret"]
     ELSE /\ mpc' = [mpc EXCEPT ![p] = "demand_wait"]
          /\ UNCHANGED mret
  /\ UNCHANGED <<configs, connections, lazyLoading, mu, nextHandle, openPools,
                 loads, mtodo, mattempts, mpre>>

\* a connectOnDemand without the second lookup under the write lock;
\* OnDemandOpensOnce holds of the code and not of this one
connectWithoutSecondLookup(p) ==
  /\ mpc[p] = "demand_wait"
  /\ Unlocked
  /\ mu' = [mu EXCEPT !.writer = p]
  /\ mpre' = [mpre EXCEPT ![p] = connections]
  /\ IF mid[p] \notin DOMAIN configs
     THEN /\ mret' = [mret EXCEPT ![p] = ErrValue("config not found", mid[p])]
          /\ mpc' = [mpc EXCEPT ![p] = "demand_ret"]
     ELSE /\ mpc' = [mpc EXCEPT ![p] = "demand_open"]
          /\ UNCHANGED mret
  /\ UNCHANGED <<configs, connections, lazyLoading, nextHandle, openPools,
                 loads, mid, mtodo, mattempts>>

\* a connectOnDemand that answers with the failure of the open attempt it
\* waited for; FailedOpenIsNotRemembered holds of the code and
\* not of this one
connectRememberingFailure(p) ==
  /\ mpc[p] = "demand_wait"
  /\ Unlocked
  /\ mu' = [mu EXCEPT !.writer = p]
  /\ mpre' = [mpre EXCEPT ![p] = connections]
  /\ IF mid[p] \in DOMAIN connections
     THEN /\ mret' = [mret EXCEPT ![p] = HandleValue(connections[mid[p]])]
          /\ mpc' = [mpc EXCEPT ![p] = "demand_ret"]
     ELSE IF mid[p] \notin DOMAIN configs
     THEN /\ mret' = [mret EXCEPT ![p] = ErrValue("config not found", mid[p])]
          /\ mpc' = [mpc EXCEPT ![p] = "demand_ret"]
     ELSE IF odOverlapped[p] = "failed"
     THEN /\ mret' = [mret EXCEPT ![p] = ErrValue("connect failed", mid[p])]
          /\ mpc' = [mpc EXCEPT ![p] = "demand_ret"]
     ELSE /\ mpc' = [mpc EXCEPT ![p] = "demand_open"]
          /\ UNCHANGED mret
  /\ UNCHANGED <<configs, connections, lazyLoading, nextHandle, openPools,
                 loads, mid, mtodo, mattempts>>

\* connectOnDemand: the write lock, the second lookup, the configuration
connectOnDemand(p) ==
  /\ mpc[p] = "demand_wait"
  /\ Unlocked
  /\ mu' = [mu EXCEPT !.writer = p]
  /\ mpre' = [mpre EXCEPT ![p] = connections]
  /\ IF mid[p] \in DOMAIN connections
     THEN /\ mret' = [mret EXCEPT ![p] = HandleValue(connections[mid[p]])]
          /\ mpc' = [mpc EXCEPT ![p] = "demand_ret"]
     ELSE IF mid[p] \notin DOMAIN configs
     THEN /\ mret' = [mret EXCEPT ![p] = ErrValue("config not found", mid[p])]
          /\ mpc' = [mpc EXCEPT ![p] = "demand_ret"]
     ELSE /\ mpc' = [mpc EXCEPT ![p] = "demand_open"]
          /\ UNCHANGED mret
  /\ UNCHANGED <<configs, connections, lazyLoading, nextHandle, openPools,
                 loads, mid, mtodo, mattempts>>

\* connectOnDemand: the open, made with the write lock held
OnDemandOpen(p) ==
  /\ mpc[p] = "demand_open"
  /\ \E ok \in BOOLEAN :
       /\ createAndConnectDatabase(ok)
       /\ mattempts' = [mattempts EXCEPT ![p] = Append(@, [id |-> mid[p], ok |-> ok])]
       /\ IF ok
          THEN /\ connections' = Put(connections, mid[p], nextHandle + 1)
               /\ mret' = [mret EXCEPT ![p] = HandleValue(nextHandle + 1)]
          ELSE /\ mret' = [mret EXCEPT ![p] = ErrValue("connect failed", mid[p])]
               /\ UNCHANGED connections
  /\ mpc' = [mpc EXCEPT ![p] = "demand_ret"]
  /\ UNCHANGED <<configs, lazyLoading, mu, loads, mid, mtodo, mpre>>

\* Close(id): db.Close() is called with the write lock held.  sql.DB.Close
\* shuts the pool also when it returns an error (the error is that of closing
\* one of the pool's connections).
Close(p, id) ==
  /\ mpc[p] = "idle"
  /\ Unlocked
  /\ mu' = [mu EXCEPT !.writer = p]
  /\ mid' = [mid EXCEPT ![p] = id]
  /\ mpre' = [mpre EXCEPT ![p] = connections]
  /\ mpc' = [mpc EXCEPT ![p] = "close_ret"]
  /\ IF id \notin DOMAIN connections
     THEN /\ mret' = [mret EXCEPT ![p] = ErrValue("connection not found", id)]
          /\ UNCHANGED <<connections, openPools>>
     ELSE \E ok \in BOOLEAN :
            IF ok
            THEN /\ openPools' = openPools \ {connections[id]}
                 /\ connections' = Del(connections, id)
                 /\ mret' = [mret EXCEPT ![p] = OkValue]
            ELSE /\ mret' = [mret EXCEPT ![p] = ErrValue("close failed", id)]
                 /\ openPools' = openPools \ {connections[id]}
                 /\ UNCHANGED connections
  /\ UNCHANGED <<configs, lazyLoading, nextHandle, loads, mtodo, mattempts>>

\* CloseAll: takes the write lock; firstErr starts nil
CloseAll(p) ==
  /\ mpc[p] = "idle"
  /\ Unlocked
  /\ mu' = [mu EXCEPT !.writer = p]
  /\ mpre' = [mpre EXCEPT ![p] = connections]
  /\ mtodo' = [mtodo EXCEPT ![p] = DOMAIN connections]
  /\ mret' = [mret EXCEPT ![p] = OkValue]
  /\ mpc' = [mpc EXCEPT ![p] =
               IF connections = EmptyMap THEN "closeall_ret" ELSE "closeall"]
  /\ UNCHANGED <<configs, connections, lazyLoading, nextHandle, openPools,
                 loads, mid, mattempts>>

\* a CloseAll loop that stops at the first close that fails;
\* CloseAllClosesEverything holds of the code and not of this one
CloseAllStopAtFailure(p) ==
  /\ mpc[p] = "closeall"
  /\ \E id \in mtodo[p], ok \in BOOLEAN :
       LET rest == mtodo[p] \ {id}
       IN /\ openPools' = openPools \ {connections[id]}
          /\ mattempts' = [mattempts EXCEPT ![p] =
                             IF ok THEN @ ELSE Append(@, [id |-> id, ok |-> ok])]
          /\ mret' = [mret EXCEPT ![p] =
                        IF ~ok THEN ErrValue("close failed", id) ELSE @]
          /\ connections' = Del(connections, id)
          /\ mtodo' = [mtodo EXCEPT ![p] = rest]
          /\ mpc' = [mpc EXCEPT ![p] =
                       IF rest = {} \/ ~ok THEN "closeall_ret" ELSE "closeall"]
  /\ UNCHANGED <<configs, lazyLoading, mu, nextHandle, loads, mid, mpre>>

\* CloseAll: one turn of the loop over Manager.connections
CloseAllStep(p) ==
  /\ mpc[p] = "closeall"
  /\ \E id \in mtodo[p], ok \in BOOLEAN :
       LET rest == mtodo[p] \ {id}
       IN /\ openPools' = openPools \ {connections[id]}
          /\ mattempts' = [mattempts EXCEPT ![p] =
                             IF ok THEN @ ELSE Append(@, [id |-> id, ok |-> ok])]
          /\ mret' = [mret EXCEPT ![p] =
                        IF ~ok /\ @ = OkValue THEN ErrValue("close failed", id) ELSE @]
          /\ connections' = Del(connections, id)
          /\ mtodo' = [mtodo EXCEPT ![p] = rest]
          /\ mpc' = [mpc EXCEPT ![p] =
                       IF rest = {} THEN "closeall_ret" ELSE "closeall"]
  /\ UNCHANGED <<configs, lazyLoading, mu, nextHandle, loads, mid, mpre>>

\* the goroutines inside a GetDatabase(id) call
InFlight(id) ==
  {q \in Procs : mid[q] = id /\
                 mpc[q] \in {"get_ret", "demand_wait", "demand_open", "demand_ret"}}

\* the deferred unlock of a call and its return to the caller
Return(p) ==
  /\ mpc[p] \in {"list_ret", "type_ret", "connect_ret", "get_ret",
                 "demand_ret", "close_ret", "closeall_ret"}
  /\ mu' = [writer |-> IF mu.writer = p THEN NoProc ELSE mu.writer,
            readers |-> mu.readers \ {p}]
  /\ mpc' = [mpc EXCEPT ![p] = "idle"]
  /\ mid' = [mid EXCEPT ![p] = NoID]
  /\ mtodo' = [mtodo EXCEPT ![p] = {}]
  /\ mret' = [mret EXCEPT ![p] = NoValue]
  /\ mattempts' = [mattempts EXCEPT ![p] = <<>>]
  /\ mpre' = [mpre EXCEPT ![p] = EmptyMap]
  /\ UNCHANGED <<configs, connections, lazyLoading, nextHandle, openPools,
                 loads>>

(***************************************************************************)
(* Part II.  Transactions.                                                 *)
(*                                                                         *)
(* sqlTx is the database/sql side of every *sql.Tx that BeginTx returned:  *)
(* a Tx is done after its first Commit or Rollback, whether or not the     *)
(* driver reported an error; every later call on it returns ErrTxDone; and *)
(* when the context given to BeginTx is cancelled the sql package rolls    *)
(* the transaction back.                                                   *)
(***************************************************************************)
VARIABLES
  now,                 \* the clock reading time.Now() returns
  dbInstance,          \* dbtools.dbInstance # nil
  sqlTx,               \* the *sql.Tx values created so far, by handle
  activeTransactions,  \* registry of the dbTransaction tool: ID -> handle
  transactions,        \* registry behind GetTransaction/StoreTransaction
  termDone,            \* the IDs for which a commit or rollback request was
                       \* processed since the ID was last stored
  tpc,                 \* per request goroutine: position in its handler
  targ,                \* per request goroutine: the arguments of its request
  ttx,                 \* per request goroutine: the handle it looked up
  terr,                \* per request goroutine: the err of its driver call
  tres,                \* per request goroutine: the response it returns
  tlate                \* per request goroutine: its lookup came after a
                       \* processed commit or rollback of its ID

txVars == <<now, dbInstance, sqlTx, activeTransactions, transactions,
            termDone, tpc, targ, ttx, terr, tres, tlate>>

\* clock readings in one run
MaxClock == 1
\* transactions the driver begins in one run
MaxTx == 1
\* transactions the driver begins in a run that only begins transactions
MaxBegins == 2

\* goroutines serving transaction requests
Reqs == {"r1", "r2"}

NoArgs == [dbID |-> "", action |-> "", hasTxID |-> FALSE, txID |-> <<"", 0>>,
           hasStatement |-> FALSE, statement |-> <<>>]
NoResponse == [isError |-> FALSE, text |-> "", txID |-> <<"", 0>>]

\* a transaction ID is a string; <<prefix, n>> stands for prefix ++ digits(n).
\* Clients send IDs of the generated form, those of the first two clock
\* readings, so that an ID may be unknown, known, or known again after a
\* later begin.
LegacyClientIDs == {"tx-"} \X {0, 1}
ToolDB == "a"
ToolClientIDs == {"tx_a_"} \X {0, 1}

Statements == {<<"S", "E", "L", "E", "C", "T">>,
               <<"s", "e", "l", "e", "c", "t">>}

\* the request passes the parameter checks and goes on to the registry
ReachesRegistry(args) ==
  \/ args.action = "begin"
  \/ args.action \in {"commit", "rollback"} /\ args.hasTxID
  \/ args.action = "execute" /\ args.hasTxID /\ args.hasStatement

\* r1 sends every request; r2, the goroutine that overlaps r1's requests,
\* sends those that go on to the registry: a request rejected for its
\* parameters changes nothing and calls nothing
RequestsOf(r, requests) ==
  IF r = "r1" THEN requests ELSE {args \in requests : ReachesRegistry(args)}

Response(isError, text, id) == [isError |-> isError, text |-> text, txID |-> id]

Tick ==
  /\ now < MaxClock
  /\ now' = now + 1
  /\ UNCHANGED <<dbInstance, sqlTx, activeTransactions, transactions,
                 termDone, tpc, targ, ttx, terr, tres, tlate>>

\* database/sql: the goroutine BeginTx starts rolls the transaction back
\* once the context given to BeginTx is done
awaitDone(h) ==
  /\ h \in DOMAIN sqlTx
  /\ sqlTx[h].ctx = "done"
  /\ sqlTx[h].state = "open"
  /\ sqlTx' = [sqlTx EXCEPT ![h].state = "rolledback"]
  /\ UNCHANGED <<now, dbInstance, activeTransactions, transactions, termDone,
                 tpc, targ, ttx, terr, tres, tlate>>

\* tx.Commit() / tx.Rollback(): the Tx after the call; calls tells whether
\* it received no, one or more such calls
TxAfterTerminator(tx, kind, ok) ==
  [tx EXCEPT !.state = IF tx.state # "open" THEN @
                       ELSE IF ~ok THEN "failed"
                       ELSE IF kind = "commit" THEN "committed"
                       ELSE "rolledback",
             !.calls = IF @ = "none" THEN "one" ELSE "many"]

\* tx.Commit() / tx.Rollback(): whether the call returns an error
TerminatorFails(tx, ok) == tx.state # "open" \/ ~ok

\* the reply leaves the handler: the goroutine is free for the next request
Reply(r) ==
  /\ tpc[r] = "done"
  /\ tpc' = [tpc EXCEPT ![r] = "idle"]
  /\ targ' = [targ EXCEPT ![r] = NoArgs]
  /\ ttx' = [ttx EXCEPT ![r] = 0]
  /\ terr' = [terr EXCEPT ![r] = FALSE]
  /\ tres' = [tres EXCEPT ![r] = NoResponse]
  /\ tlate' = [tlate EXCEPT ![r] = FALSE]
  /\ UNCHANGED <<now, dbInstance, sqlTx, activeTransactions, transactions,
                 termDone>>

(***************************************************************************)
(* II.a  The dbTransaction tool.  activeTransactions is a plain map with   *)
(* no lock; each access to it is taken as one step.                        *)
(***************************************************************************)

\* what handleTransaction answers before any action runs
handleTransaction(r, args) ==
  /\ tpc[r] = "idle"
  /\ \/ ~dbInstance
     \/ args.action \notin {"begin", "commit", "rollback", "execute"}
  /\ targ' = [targ EXCEPT ![r] = args]
  /\ tres' = [tres EXCEPT ![r] =
                Response(TRUE,
                         IF ~dbInstance THEN "database not initialized"
                         ELSE IF args.action = "" THEN "action parameter is required"
                         ELSE "invalid action", args.txID)]
  /\ tpc' = [tpc EXCEPT ![r] = "done"]
  /\ UNCHANGED <<now, dbInstance, sqlTx, activeTransactions, transactions,
                 termDone, ttx, terr, tlate>>

\* beginTransaction: BeginTx(timeoutCtx), the ID from the clock, the store,
\* and on return the deferred cancel() of timeoutCtx
beginTransaction(r, args, ok) ==
  /\ tpc[r] = "idle"
  /\ dbInstance
  /\ args.action = "begin"
  /\ targ' = [targ EXCEPT ![r] = args]
  /\ tpc' = [tpc EXCEPT ![r] = "done"]
  /\ IF ok
     THEN LET h == Len(sqlTx) + 1
              txID == <<"tx-", now>>
          IN /\ sqlTx' = Append(sqlTx, [state |-> "open", ctx |-> "done", calls |-> "none"])
             /\ activeTransactions' = Put(activeTransactions, txID, h)
             /\ termDone' = termDone \ {txID}
             /\ tres' = [tres EXCEPT ![r] = Response(FALSE, "active", txID)]
     ELSE /\ tres' = [tres EXCEPT ![r] =
                        Response(TRUE, "failed to begin transaction", args.txID)]
          /\ UNCHANGED <<sqlTx, activeTransactions, termDone>>
  /\ UNCHANGED <<now, dbInstance, transactions, ttx, terr, tlate>>

\* commitTransaction / rollbackTransaction / executeInTransaction: the
\* parameter checks and the lookup in activeTransactions
lookupTransaction(r, args) ==
  /\ tpc[r] = "idle"
  /\ dbInstance
  /\ args.action \in {"commit", "rollback", "execute"}
  /\ targ' = [targ EXCEPT ![r] = args]
  /\ IF ~args.hasTxID
     THEN /\ tres' = [tres EXCEPT ![r] =
                        Response(TRUE, "transactionId parameter is required", args.txID)]
          /\ tpc' = [tpc EXCEPT ![r] = "done"]
          /\ UNCHANGED <<ttx, tlate>>
     ELSE IF args.txID \notin DOMAIN activeTransactions
     THEN /\ tres' = [tres EXCEPT ![r] =
                        Response(TRUE, "transaction not found", args.txID)]
          /\ tpc' = [tpc EXCEPT ![r] = "done"]
          /\ tlate' = [tlate EXCEPT ![r] = args.txID \in termDone]
          /\ UNCHANGED ttx
     ELSE /\ ttx' = [ttx EXCEPT ![r] = activeTransactions[args.txID]]
          /\ tlate' = [tlate EXCEPT ![r] = args.txID \in termDone]
          /\ IF args.action = "execute" /\ ~args.hasStatement
             THEN /\ tres' = [tres EXCEPT ![r] =
                                Response(TRUE, "statement parameter is required", args.txID)]
                  /\ tpc' = [tpc EXCEPT ![r] = "done"]
             ELSE /\ tpc' = [tpc EXCEPT ![r] =
                               IF args.action = "execute" THEN "execute" ELSE "terminate"]
                  /\ UNCHANGED tres
  /\ UNCHANGED <<now, dbInstance, sqlTx, activeTransactions, transactions,
                 termDone, terr>>

\* commitTransaction / rollbackTransaction: err := tx.Commit() / tx.Rollback()
terminateTransaction(r, ok) ==
  /\ tpc[r] = "terminate"
  /\ sqlTx' = [sqlTx EXCEPT ![ttx[r]] = TxAfterTerminator(@, targ[r].action, ok)]
  /\ terr' = [terr EXCEPT ![r] = TerminatorFails(sqlTx[ttx[r]], ok)]
  /\ tpc' = [tpc EXCEPT ![r] = "remove"]
  /\ UNCHANGED <<now, dbInstance, activeTransactions, transactions, termDone,
                 targ, ttx, tres, tlate>>

\* commitTransaction / rollbackTransaction: delete(activeTransactions, txID),
\* then the error check and the reply
deleteTransaction(r) ==
  /\ tpc[r] = "remove"
  /\ activeTransactions' = Del(activeTransactions, targ[r].txID)
  /\ termDone' = termDone \cup {targ[r].txID}
  /\ tres' = [tres EXCEPT ![r] =
                IF terr[r]
                THEN Response(TRUE, "failed to " \o targ[r].action \o " transaction",
                              targ[r].txID)
                ELSE Response(FALSE, IF targ[r].action = "commit" THEN "committed"
                                     ELSE "rolled back", targ[r].txID)]
  /\ tpc' = [tpc EXCEPT ![r] = "done"]
  /\ UNCHANGED <<now, dbInstance, sqlTx, transactions, targ, ttx, terr, tlate>>

\* isQueryStatement
isQueryStatement(statement) ==
  Len(statement) >= 6 /\ SubSeq(statement, 1, 6) = <<"S", "E", "L", "E", "C", "T">>

\* executeInTransaction: tx.QueryContext or tx.ExecContext and the reply
\* A variant of the execute step that forgets the transaction when the
\* driver reports an error.
executeAndForget(r, ok) ==
  /\ tpc[r] = "execute"
  /\ LET fails == sqlTx[ttx[r]].state # "open" \/ ~ok
         path == IF isQueryStatement(targ[r].statement) THEN "query" ELSE "statement"
     IN /\ tres' = [tres EXCEPT ![r] =
                      IF fails
                      THEN Response(TRUE, "failed to execute " \o path \o " in transaction",
                                    targ[r].txID)
                      ELSE Response(FALSE, path, targ[r].txID)]
        /\ activeTransactions' = IF fails THEN Del(activeTransactions, targ[r].txID)
                                 ELSE activeTransactions
  /\ tpc' = [tpc EXCEPT ![r] = "done"]
  /\ UNCHANGED <<now, dbInstance, sqlTx, transactions,
                 termDone, targ, ttx, terr, tlate>>

executeInTransaction(r, ok) ==
  /\ tpc[r] = "execute"
  /\ LET fails == sqlTx[ttx[r]].state # "open" \/ ~ok
         path == IF isQueryStatement(targ[r].statement) THEN "query" ELSE "statement"
     IN tres' = [tres EXCEPT ![r] =
                   IF fails
                   THEN Response(TRUE, "failed to execute " \o path \o " in transaction",
                                 targ[r].txID)
                   ELSE Response(FALSE, path, targ[r].txID)]
  /\ tpc' = [tpc EXCEPT ![r] = "done"]
  /\ UNCHANGED <<now, dbInstance, sqlTx, activeTransactions, transactions,
                 termDone, targ, ttx, terr, tlate>>

\* the requests a client of the dbTransaction tool may send; a parameter
\* the action never reads is left out
LegacyRequests ==
  [dbID : {""}, action : {"", "drop", "begin", "commit", "rollback", "execute"},
   hasTxID : {FALSE}, txID : {<<"", 0>>},
   hasStatement : {FALSE}, statement : {<<>>}]
  \cup
  [dbID : {""}, action : {"commit", "rollback", "execute"},
   hasTxID : {TRUE}, txID : LegacyClientIDs,
   hasStatement : {FALSE}, statement : {<<>>}]
  \cup
  [dbID : {""}, action : {"execute"},
   hasTxID : {TRUE}, txID : LegacyClientIDs,
   hasStatement : {TRUE}, statement : Statements]

(***************************************************************************)
(* II.b  The transaction tool of a configured database,                    *)
(* handleTransactionForDatabase.  GetTransaction, StoreTransaction and     *)
(* RemoveTransaction each take the registry's mutex for one map access.    *)
(***************************************************************************)

\* GetTransaction(id)
GetTransaction(id) ==
  IF id \in DOMAIN transactions
  THEN [tx |-> transactions[id], exists |-> TRUE]
  ELSE [tx |-> 0, exists |-> FALSE]

\* StoreTransaction(id, tx): the registry after the call
StoreTransaction(id, tx) == Put(transactions, id, tx)

\* RemoveTransaction(id): the registry after the call
RemoveTransaction(id) == Del(transactions, id)

\* createErrorResponse
createErrorResponse(message, id) == Response(TRUE, "Error: " \o message, id)

\* case "begin" up to BeginTx: the ID, GetDatabase(dbID) with the on-demand
\* open a lazy manager makes, and db.BeginTx(ctx, opts)
beginForDatabase(r, args, openOk, ok) ==
  /\ tpc[r] = "idle"
  /\ args.action = "begin"
  /\ Unlocked
  /\ LET txID == IF args.hasTxID THEN args.txID ELSE <<"tx_" \o args.dbID \o "_", now>>
         connected == args.dbID \in DOMAIN connections
         opens == ~connected /\ lazyLoading /\ args.dbID \in DOMAIN configs
         found == connected \/ (opens /\ openOk)
     IN /\ targ' = [targ EXCEPT ![r] = [args EXCEPT !.txID = txID]]
        /\ IF opens /\ openOk
           THEN /\ nextHandle < MaxHandles
                /\ nextHandle' = nextHandle + 1
                /\ connections' = Put(connections, args.dbID, nextHandle + 1)
                /\ openPools' = openPools \cup {nextHandle + 1}
           ELSE UNCHANGED <<nextHandle, connections, openPools>>
        /\ IF ~found
           THEN /\ tres' = [tres EXCEPT ![r] =
                              createErrorResponse("Failed to get database", txID)]
                /\ tpc' = [tpc EXCEPT ![r] = "done"]
                /\ UNCHANGED <<sqlTx, ttx>>
           ELSE IF ~ok
           THEN /\ tres' = [tres EXCEPT ![r] =
                              createErrorResponse("Failed to begin transaction", txID)]
                /\ tpc' = [tpc EXCEPT ![r] = "done"]
                /\ UNCHANGED <<sqlTx, ttx>>
           ELSE /\ sqlTx' = Append(sqlTx, [state |-> "open", ctx |-> "live", calls |-> "none"])
                /\ ttx' = [ttx EXCEPT ![r] = Len(sqlTx) + 1]
                /\ tpc' = [tpc EXCEPT ![r] = "store"]
                /\ UNCHANGED tres
  /\ UNCHANGED <<now, dbInstance, activeTransactions, transactions, termDone,
                 terr, tlate>>
  /\ UNCHANGED <<configs, lazyLoading, mu, loads, mpc, mid, mtodo, mret,
                 mattempts, mpre>>

\* storeTransaction: the check that the ID is free
storeTransaction(r) ==
  /\ tpc[r] = "store"
  /\ IF GetTransaction(targ[r].txID).exists
     THEN /\ tres' = [tres EXCEPT ![r] =
                        createErrorResponse("Failed to store transaction", targ[r].txID)]
          /\ tpc' = [tpc EXCEPT ![r] = "done"]
     ELSE /\ tpc' = [tpc EXCEPT ![r] = "put"]
          /\ UNCHANGED tres
  /\ UNCHANGED <<now, dbInstance, sqlTx, activeTransactions, transactions,
                 termDone, targ, ttx, terr, tlate>>

\* storeTransaction: StoreTransaction(id, tx), and the reply of case "begin"
storeTransactionPut(r) ==
  /\ tpc[r] = "put"
  /\ transactions' = StoreTransaction(targ[r].txID, ttx[r])
  /\ termDone' = termDone \ {targ[r].txID}
  /\ tres' = [tres EXCEPT ![r] = Response(FALSE, "Transaction started", targ[r].txID)]
  /\ tpc' = [tpc EXCEPT ![r] = "done"]
  /\ UNCHANGED <<now, dbInstance, sqlTx, activeTransactions, targ, ttx, terr,
                 tlate>>

\* a lookup that answers a rollback of an unknown ID with success;
\* UnknownTransactionIsNotFound holds of the code and not of this one
getTransactionOrForgive(r, args) ==
  /\ tpc[r] = "idle"
  /\ args.action \in {"commit", "rollback", "execute"}
  /\ targ' = [targ EXCEPT ![r] = args]
  /\ IF ~args.hasTxID
     THEN /\ tres' = [tres EXCEPT ![r] =
                        createErrorResponse("transactionId is required for "
                                            \o args.action \o " action", args.txID)]
          /\ tpc' = [tpc EXCEPT ![r] = "done"]
          /\ UNCHANGED <<ttx, tlate>>
     ELSE IF args.action = "execute" /\ ~args.hasStatement
     THEN /\ tres' = [tres EXCEPT ![r] =
                        createErrorResponse("statement is required for execute action",
                                            args.txID)]
          /\ tpc' = [tpc EXCEPT ![r] = "done"]
          /\ UNCHANGED <<ttx, tlate>>
     ELSE /\ tlate' = [tlate EXCEPT ![r] = args.txID \in termDone]
          /\ IF ~GetTransaction(args.txID).exists
             THEN /\ tres' = [tres EXCEPT ![r] =
                                IF args.action = "rollback"
                                THEN Response(FALSE, "Transaction rolled back", args.txID)
                                ELSE createErrorResponse(
                                       "Failed to get transaction: not found", args.txID)]
                  /\ tpc' = [tpc EXCEPT ![r] = "done"]
                  /\ UNCHANGED ttx
             ELSE /\ ttx' = [ttx EXCEPT ![r] = GetTransaction(args.txID).tx]
                  /\ tpc' = [tpc EXCEPT ![r] =
                               IF args.action = "execute" THEN "exec" ELSE "finish"]
                  /\ UNCHANGED tres
  /\ UNCHANGED <<now, dbInstance, sqlTx, activeTransactions, transactions,
                 termDone, terr>>

\* A variant of the lookup that goes to the registry without first checking
\* that the request carries a transactionId and, for execute, a statement.
getTransactionUnchecked(r, args) ==
  /\ tpc[r] = "idle"
  /\ args.action \in {"commit", "rollback", "execute"}
  /\ targ' = [targ EXCEPT ![r] = args]
  /\ tlate' = [tlate EXCEPT ![r] = args.txID \in termDone]
  /\ IF ~GetTransaction(args.txID).exists
     THEN /\ tres' = [tres EXCEPT ![r] =
                        createErrorResponse("Failed to get transaction: not found",
                                            args.txID)]
          /\ tpc' = [tpc EXCEPT ![r] = "done"]
          /\ UNCHANGED ttx
     ELSE /\ ttx' = [ttx EXCEPT ![r] = GetTransaction(args.txID).tx]
          /\ tpc' = [tpc EXCEPT ![r] =
                       IF args.action = "execute" THEN "exec" ELSE "finish"]
          /\ UNCHANGED tres
  /\ UNCHANGED <<now, dbInstance, sqlTx, activeTransactions, transactions,
                 termDone, terr>>

\* getTransaction, after the parameter checks of case "commit", "rollback"
\* and "execute"
getTransaction(r, args) ==
  /\ tpc[r] = "idle"
  /\ args.action \in {"commit", "rollback", "execute"}
  /\ targ' = [targ EXCEPT ![r] = args]
  /\ IF ~args.hasTxID
     THEN /\ tres' = [tres EXCEPT ![r] =
                        createErrorResponse("transactionId is required for "
                                            \o args.action \o " action", args.txID)]
          /\ tpc' = [tpc EXCEPT ![r] = "done"]
          /\ UNCHANGED <<ttx, tlate>>
     ELSE IF args.action = "execute" /\ ~args.hasStatement
     THEN /\ tres' = [tres EXCEPT ![r] =
                        createErrorResponse("statement is required for execute action",
                                            args.txID)]
          /\ tpc' = [tpc EXCEPT ![r] = "done"]
          /\ UNCHANGED <<ttx, tlate>>
     ELSE /\ tlate' = [tlate EXCEPT ![r] = args.txID \in termDone]
          /\ IF ~GetTransaction(args.txID).exists
             THEN /\ tres' = [tres EXCEPT ![r] =
                                createErrorResponse("Failed to get transaction: not found",
                                                    args.txID)]
                  /\ tpc' = [tpc EXCEPT ![r] = "done"]
                  /\ UNCHANGED ttx
             ELSE /\ ttx' = [ttx EXCEPT ![r] = GetTransaction(args.txID).tx]
                  /\ tpc' = [tpc EXCEPT ![r] =
                               IF args.action = "execute" THEN "exec" ELSE "finish"]
                  /\ UNCHANGED tres
  /\ UNCHANGED <<now, dbInstance, sqlTx, activeTransactions, transactions,
                 termDone, terr>>

\* case "commit" / "rollback": tx.Commit() / tx.Rollback() and the return
\* on its error
commitOrRollback(r, ok) ==
  /\ tpc[r] = "finish"
  /\ sqlTx' = [sqlTx EXCEPT ![ttx[r]] = TxAfterTerminator(@, targ[r].action, ok)]
  /\ terr' = [terr EXCEPT ![r] = TerminatorFails(sqlTx[ttx[r]], ok)]
  /\ IF TerminatorFails(sqlTx[ttx[r]], ok)
     THEN /\ tres' = [tres EXCEPT ![r] =
                        createErrorResponse("Failed to " \o targ[r].action
                                            \o " transaction", targ[r].txID)]
          /\ termDone' = termDone \cup {targ[r].txID}
          /\ tpc' = [tpc EXCEPT ![r] = "done"]
     ELSE /\ tpc' = [tpc EXCEPT ![r] = "forget"]
          /\ UNCHANGED <<tres, termDone>>
  /\ UNCHANGED <<now, dbInstance, activeTransactions, transactions, targ, ttx,
                 tlate>>

\* case "commit" / "rollback": removeTransaction(txID) and the reply
removeTransaction(r) ==
  /\ tpc[r] = "forget"
  /\ transactions' = RemoveTransaction(targ[r].txID)
  /\ termDone' = termDone \cup {targ[r].txID}
  /\ tres' = [tres EXCEPT ![r] =
                Response(FALSE, IF targ[r].action = "commit" THEN "Transaction committed"
                                ELSE "Transaction rolled back", targ[r].txID)]
  /\ tpc' = [tpc EXCEPT ![r] = "done"]
  /\ UNCHANGED <<now, dbInstance, sqlTx, activeTransactions, targ, ttx, terr,
                 tlate>>

\* case "execute": tx.Exec(statement, ...) and the reply
execInTransaction(r, ok) ==
  /\ tpc[r] = "exec"
  /\ tres' = [tres EXCEPT ![r] =
                IF sqlTx[ttx[r]].state # "open" \/ ~ok
                THEN createErrorResponse("Failed to execute statement in transaction",
                                         targ[r].txID)
                ELSE Response(FALSE, "Statement executed in transaction", targ[r].txID)]
  /\ tpc' = [tpc EXCEPT ![r] = "done"]
  /\ UNCHANGED <<now, dbInstance, sqlTx, activeTransactions, transactions,
                 termDone, targ, ttx, terr, tlate>>

\* default: any other action
unknownAction(r, args) ==
  /\ tpc[r] = "idle"
  /\ args.action \notin {"begin", "commit", "rollback", "execute"}
  /\ targ' = [targ EXCEPT ![r] = args]
  /\ tres' = [tres EXCEPT ![r] =
                createErrorResponse("Unknown transaction action", args.txID)]
  /\ tpc' = [tpc EXCEPT ![r] = "done"]
  /\ UNCHANGED <<now, dbInstance, sqlTx, activeTransactions, transactions,
                 termDone, ttx, terr, tlate>>

\* the requests a client of the transaction tool of ToolDB may send; a
\* parameter the action never reads is left out
ToolRequests ==
  [dbID : {ToolDB}, action : {"", "begin", "commit", "rollback", "execute"},
   hasTxID : {FALSE}, txID : {<<"", 0>>},
   hasStatement : {FALSE}, statement : {<<>>}]
  \cup
  [dbID : {ToolDB}, action : {"begin", "commit", "rollback", "execute"},
   hasTxID : {TRUE}, txID : ToolClientIDs,
   hasStatement : {FALSE}, statement : {<<>>}]
  \cup
  [dbID : {ToolDB}, action : {"execute"},
   hasTxID : {TRUE}, txID : ToolClientIDs,
   hasStatement : {TRUE}, statement : {<<"s", "e", "l", "e", "c", "t">>}]

(***************************************************************************)
(* II.d  The query, execute and schema tools of a configured database.     *)
(* Each handler is one step: it has no state of its own besides the        *)
(* connection the manager may open for it.                                 *)
(***************************************************************************)
\* database IDs a tool can be bound to: one that opens on demand, one that
\* is connected, one that is not configured
ToolDBs == {"a", "b", "zz"}

\* GetDatabase(dbID) of pkg/dbtools on a manager with lazy loading: found
\* when connected, or when configured and the open on demand succeeds
databaseFound(dbID, openOk) ==
  \/ dbID \in DOMAIN connections
  \/ lazyLoading /\ dbID \in DOMAIN configs /\ openOk

\* the connection GetDatabase installs when it opens one on demand
getDatabaseForTool(dbID, openOk) ==
  /\ Unlocked
  /\ IF dbID \notin DOMAIN connections /\ lazyLoading /\ dbID \in DOMAIN configs
        /\ openOk
     THEN /\ nextHandle < MaxHandles
          /\ nextHandle' = nextHandle + 1
          /\ connections' = Put(connections, dbID, nextHandle + 1)
          /\ openPools' = openPools \cup {nextHandle + 1}
     ELSE UNCHANGED <<nextHandle, connections, openPools>>
  /\ UNCHANGED <<configs, lazyLoading, mu, loads, mpc, mid, mtodo, mret,
                 mattempts, mpre>>

\* the reply of a one-step tool handler; failed is the error of its driver
\* call
toolReplies(r, dbID, tool, failed, response) ==
  /\ tpc[r] = "idle"
  /\ tpc' = [tpc EXCEPT ![r] = "done"]
  /\ targ' = [targ EXCEPT ![r] = [NoArgs EXCEPT !.dbID = dbID, !.action = tool]]
  /\ terr' = [terr EXCEPT ![r] = failed]
  /\ tres' = [tres EXCEPT ![r] = response]
  /\ UNCHANGED <<now, dbInstance, sqlTx, activeTransactions, transactions,
                 termDone, ttx, tlate>>

handleQueryForDatabase(r, dbID, openOk, ok, rowsOk) ==
  /\ getDatabaseForTool(dbID, openOk)
  /\ LET found == databaseFound(dbID, openOk)
     IN toolReplies(r, dbID, "query", found /\ ~ok,
          IF ~found
          THEN createErrorResponse("Error executing query: failed to get database",
                                   NoArgs.txID)
          ELSE IF ~ok
          THEN createErrorResponse("Error executing query: failed to execute query",
                                   NoArgs.txID)
          ELSE IF ~rowsOk
          THEN createErrorResponse("Error executing query: failed to format rows",
                                   NoArgs.txID)
          ELSE Response(FALSE, "Results:", NoArgs.txID))

handleExecuteForDatabase(r, dbID, openOk, ok) ==
  /\ getDatabaseForTool(dbID, openOk)
  /\ LET found == databaseFound(dbID, openOk)
     IN toolReplies(r, dbID, "execute", found /\ ~ok,
          IF ~found
          THEN createErrorResponse("Error executing statement: failed to get database",
                                   NoArgs.txID)
          ELSE IF ~ok
          THEN createErrorResponse("Error executing statement: failed to execute statement",
                                   NoArgs.txID)
          ELSE Response(FALSE, "Statement executed successfully.", NoArgs.txID))

\* handleSchemaForDatabase with getBasicSchemaInfo, which returns the schema
\* without tables when its listing query fails
handleSchemaForDatabase(r, dbID, openOk, ok) ==
  /\ getDatabaseForTool(dbID, openOk)
  /\ LET found == databaseFound(dbID, openOk)
     IN toolReplies(r, dbID, "schema", found /\ ~ok,
          IF ~found
          THEN createErrorResponse("Failed to get database", NoArgs.txID)
          ELSE Response(FALSE, IF ok THEN "Database Schema for: tables"
                               ELSE "Database Schema for: no tables", NoArgs.txID))

(***************************************************************************)
(* II.c  The schema explorer of pkg/dbtools: the candidate queries of a    *)
(* dialect, executeWithFallbacks and getFullSchema.  One call runs on one  *)
(* goroutine; it is split into steps at its driver calls (db.Query).       *)
(***************************************************************************)
VARIABLES
  driverName,          \* db.DriverName() of the database explored
  dbTables,            \* the table names the database lists, in row order
  spc,                 \* position of the getFullSchema call
  queries,             \* executeWithFallbacks: the candidates of this call
  qi,                  \* executeWithFallbacks: the candidate to run next
  fallbackCalls,       \* executeWithFallbacks calls made so far
  tablesSlice,         \* getFullSchema: the listed rows
  ti,                  \* getFullSchema: index of the table in the loop
  fullSchema,          \* getFullSchema: table name -> its columns result
  queryLog,            \* the db.Query calls the driver has seen, in order
  sret,                \* what the call returned
  component,           \* handleSchemaExplorer: the component asked for
  curTable             \* the table argument of the running getColumns or
                       \* getRelationships

schemaVars == <<driverName, dbTables, spc, queries, qi, fallbackCalls,
                tablesSlice, ti, fullSchema, queryLog, sret, component, curTable>>

\* tables the explored database lists at most
MaxTables == 2

TableNames == {"t1", "t2"}

DriverNames == {"postgres", "mysql", "sqlite3", "oracle"}

NewDatabaseStrategy(name) ==
  CASE name = "postgres" -> "PostgresStrategy"
    [] name = "mysql" -> "MySQLStrategy"
    [] name \in {"sqlite", "sqlite3"} -> "SQLiteStrategy"
    [] OTHER -> "GenericStrategy"

QueryWithArgs(query, args) == [Query |-> query, Args |-> args]

NoQuery == QueryWithArgs("", <<>>)

GetTablesQueries(strategy) ==
  CASE strategy = "PostgresStrategy" ->
         <<QueryWithArgs("pg_catalog.pg_tables", <<>>),
           QueryWithArgs("information_schema.tables public", <<>>),
           QueryWithArgs("pg_catalog.pg_class", <<>>)>>
    [] strategy = "MySQLStrategy" ->
         <<QueryWithArgs("information_schema.tables DATABASE()", <<>>),
           QueryWithArgs("SHOW TABLES", <<>>)>>
    [] strategy = "SQLiteStrategy" ->
         <<QueryWithArgs("sqlite_master NOT LIKE", <<>>),
           QueryWithArgs("sqlite_master NOT IN", <<>>),
           QueryWithArgs("pragma_table_list()", <<>>)>>
    [] OTHER ->
         <<QueryWithArgs("information_schema.tables public", <<>>),
           QueryWithArgs("information_schema.tables", <<>>),
           QueryWithArgs("SHOW TABLES", <<>>)>>

GetColumnsQueries(strategy, table) ==
  CASE strategy = "PostgresStrategy" ->
         <<QueryWithArgs("information_schema.columns = $1", <<table>>),
           QueryWithArgs("pg_catalog.pg_attribute = $1", <<table>>)>>
    [] strategy = "MySQLStrategy" ->
         <<QueryWithArgs("information_schema.columns = ?", <<table>>),
           QueryWithArgs("SHOW COLUMNS FROM " \o table, <<>>)>>
    [] strategy = "SQLiteStrategy" ->
         <<QueryWithArgs("PRAGMA table_info(" \o table \o ")", <<>>),
           QueryWithArgs("sqlite_master name = ?", <<table>>),
           QueryWithArgs("sqlite_master sql = ?", <<table>>)>>
    [] OTHER ->
         <<QueryWithArgs("information_schema.columns = $1", <<table>>),
           QueryWithArgs("information_schema.columns = ?", <<table>>)>>

GetRelationshipsQueries(strategy, table) ==
  CASE strategy = "PostgresStrategy" ->
         IF table = ""
         THEN <<QueryWithArgs("information_schema.table_constraints", <<>>),
                QueryWithArgs("pg_catalog.pg_constraint", <<>>)>>
         ELSE <<QueryWithArgs("information_schema.table_constraints AND table_name = $1",
                              <<table>>),
                QueryWithArgs("pg_catalog.pg_constraint AND relname = $1", <<table>>)>>
    [] strategy = "MySQLStrategy" ->
         IF table = ""
         THEN <<QueryWithArgs("information_schema.table_constraints", <<>>),
                QueryWithArgs("information_schema.key_column_usage", <<>>)>>
         ELSE <<QueryWithArgs("information_schema.table_constraints AND table_name = ?",
                              <<table, table>>),
                QueryWithArgs("information_schema.key_column_usage AND table_name = ?",
                              <<table, table>>)>>
    [] strategy = "SQLiteStrategy" ->
         LET baseQueries ==
               <<QueryWithArgs("pragma_foreign_key_list(m.name)", <<>>),
                 QueryWithArgs("pragma_foreign_key_list(?)", <<table>>),
                 QueryWithArgs("pragma_table_info(?)", <<table>>)>>
         IN IF table = "" THEN SubSeq(baseQueries, 1, 1) ELSE baseQueries
    [] OTHER ->
         IF table = ""
         THEN <<QueryWithArgs("information_schema.table_constraints", <<>>),
                QueryWithArgs("information_schema.key_column_usage", <<>>)>>
         ELSE <<QueryWithArgs("information_schema.table_constraints AND table_name = $1",
                              <<table>>),
                QueryWithArgs("information_schema.key_column_usage AND table_name = ?",
                              <<table, table>>)>>

\* The column under which a listing query returns the table name: the
\* SELECTs name it table_name, SHOW TABLES names it after the database.
TableNameColumn(q) ==
  IF q.Query = "SHOW TABLES" THEN "Tables_in_db" ELSE "table_name"

\* rowsToMaps on the rows of a listing query: one map per row, keyed by the
\* column name.
rowsToMaps(q) ==
  [i \in 1..Len(dbTables) |-> [column \in {TableNameColumn(q)} |-> dbTables[i]]]

safeGetString(m, key) ==
  IF key \in DOMAIN m THEN [val |-> m[key], err |-> FALSE]
  ELSE [val |-> "", err |-> TRUE]

\* the (interface{}, error) pair getFullSchema returns
NoSchema ==
  [isNil |-> TRUE, tables |-> <<>>, schema |-> EmptyMap, relationships |-> NoQuery,
   err |-> ""]

SchemaError(text) == [NoSchema EXCEPT !.err = text]

\* A variant of the loop that goes on to the next candidate after every
\* candidate but the last, whether or not the driver reported an error.
executeEveryCandidate(qs, i, ok) ==
  IF i < Len(qs) THEN [returned |-> FALSE, err |-> FALSE, next |-> i + 1]
  ELSE [returned |-> TRUE, err |-> ~ok, next |-> i]

\* One iteration of the loop of executeWithFallbacks, after db.Query of
\* candidate i returned: whether the function returns, with the error or
\* with the rows, and the candidate to run next when it does not.
executeWithFallbacks(qs, i, ok) ==
  IF ok THEN [returned |-> TRUE, err |-> FALSE, next |-> i]
  ELSE IF i = Len(qs) THEN [returned |-> TRUE, err |-> TRUE, next |-> i]
  ELSE [returned |-> FALSE, err |-> FALSE, next |-> i + 1]

\* the db.Query call of the current candidate, as the driver sees it
QueryCall(operationName, table, ok) ==
  [call |-> fallbackCalls, operationName |-> operationName, table |-> table,
   n |-> qi, q |-> queries[qi], ok |-> ok]

\* The head of getFullSchema's loop over tablesSlice at index i: the table
\* name of the row and the start of its getColumns, or, past the last row,
\* the start of getRelationships with no table.
forEachTable(slice, i) ==
  /\ ti' = i
  /\ IF i > Len(slice)
     THEN /\ spc' = "getRelationships"
          /\ queries' = GetRelationshipsQueries(NewDatabaseStrategy(driverName), "")
          /\ qi' = 1
          /\ fallbackCalls' = fallbackCalls + 1
          /\ curTable' = ""
          /\ UNCHANGED sret
     ELSE LET tableName == safeGetString(slice[i], "table_name")
          IN IF tableName.err
             THEN /\ spc' = "done"
                  /\ sret' = SchemaError("invalid table info")
                  /\ UNCHANGED <<queries, qi, fallbackCalls, curTable>>
             ELSE /\ spc' = "getColumns"
                  /\ curTable' = tableName.val
                  /\ queries' = GetColumnsQueries(NewDatabaseStrategy(driverName),
                                                  tableName.val)
                  /\ qi' = 1
                  /\ fallbackCalls' = fallbackCalls + 1
                  /\ UNCHANGED sret

getFullSchema ==
  /\ spc = "idle"
  /\ spc' = "getTables"
  /\ queries' = GetTablesQueries(NewDatabaseStrategy(driverName))
  /\ qi' = 1
  /\ fallbackCalls' = fallbackCalls + 1
  /\ UNCHANGED <<driverName, dbTables, tablesSlice, ti, fullSchema, queryLog, sret>>

getTables(ok, rowsOk) ==
  /\ spc = "getTables"
  /\ queryLog' = Append(queryLog, QueryCall("getTables", "", ok))
  /\ LET step == executeWithFallbacks(queries, qi, ok)
     IN IF ~step.returned
        THEN /\ qi' = step.next
             /\ UNCHANGED <<spc, queries, fallbackCalls, tablesSlice, ti, sret, curTable>>
        ELSE IF step.err \/ ~rowsOk
        THEN /\ spc' = "done"
             /\ sret' = SchemaError("failed to get tables")
             /\ UNCHANGED <<queries, qi, fallbackCalls, tablesSlice, ti, curTable>>
        ELSE /\ tablesSlice' = rowsToMaps(queries[qi])
             /\ IF component = "full"
                THEN forEachTable(tablesSlice', 1)
                ELSE /\ spc' = "done"
                     /\ sret' = [NoSchema EXCEPT !.isNil = FALSE, !.tables = tablesSlice']
                     /\ UNCHANGED <<queries, qi, fallbackCalls, ti, curTable>>
  /\ UNCHANGED <<driverName, dbTables, fullSchema, component>>

\* getColumns has its rows: inside getFullSchema the result is stored under
\* the table name and the loop goes on; called for the columns component it
\* is the handler's result.
columnsFetched ==
  LET result == [table |-> curTable, columns |-> queries[qi]]
  IN IF component = "full"
     THEN /\ fullSchema' = Put(fullSchema, curTable, result)
          /\ forEachTable(tablesSlice, ti + 1)
     ELSE /\ spc' = "done"
          /\ sret' = [NoSchema EXCEPT !.isNil = FALSE,
                                      !.schema = Put(EmptyMap, curTable, result)]
          /\ UNCHANGED <<queries, qi, fallbackCalls, ti, fullSchema, curTable>>

\* A variant of the column step that leaves a table out of the schema when
\* all its candidates failed and goes on with the next table.
getColumnsOrSkip(ok, rowsOk) ==
  /\ spc = "getColumns"
  /\ LET step == executeWithFallbacks(queries, qi, ok)
     IN /\ queryLog' = Append(queryLog, QueryCall("getColumns", curTable, ok))
        /\ IF ~step.returned
           THEN /\ qi' = step.next
                /\ UNCHANGED <<spc, queries, fallbackCalls, ti, fullSchema, sret, curTable>>
           ELSE IF step.err \/ ~rowsOk
           THEN IF component = "full"
                THEN /\ forEachTable(tablesSlice, ti + 1)
                     /\ UNCHANGED fullSchema
                ELSE /\ spc' = "done"
                     /\ sret' = SchemaError("failed to get columns for table " \o curTable)
                     /\ UNCHANGED <<queries, qi, fallbackCalls, ti, fullSchema, curTable>>
           ELSE columnsFetched
  /\ UNCHANGED <<driverName, dbTables, tablesSlice, component>>

getColumns(ok, rowsOk) ==
  /\ spc = "getColumns"
  /\ LET step == executeWithFallbacks(queries, qi, ok)
     IN /\ queryLog' = Append(queryLog, QueryCall("getColumns", curTable, ok))
        /\ IF ~step.returned
           THEN /\ qi' = step.next
                /\ UNCHANGED <<spc, queries, fallbackCalls, ti, fullSchema, sret, curTable>>
           ELSE IF step.err \/ ~rowsOk
           THEN /\ spc' = "done"
                /\ sret' = SchemaError("failed to get columns for table " \o curTable)
                /\ UNCHANGED <<queries, qi, fallbackCalls, ti, fullSchema, curTable>>
           ELSE columnsFetched
  /\ UNCHANGED <<driverName, dbTables, tablesSlice, component>>

getRelationships(ok, rowsOk) ==
  /\ spc = "getRelationships"
  /\ queryLog' = Append(queryLog, QueryCall("getRelationships", curTable, ok))
  /\ LET step == executeWithFallbacks(queries, qi, ok)
     IN IF ~step.returned
        THEN /\ qi' = step.next
             /\ UNCHANGED <<spc, sret>>
        ELSE IF step.err \/ ~rowsOk
        THEN /\ spc' = "done"
             /\ sret' = SchemaError("failed to get relationships")
             /\ UNCHANGED qi
        ELSE /\ spc' = "done"
             /\ sret' = IF component = "full"
                        THEN [isNil |-> FALSE, tables |-> tablesSlice,
                              schema |-> fullSchema, relationships |-> queries[qi],
                              err |-> ""]
                        ELSE [NoSchema EXCEPT !.isNil = FALSE,
                                              !.relationships = queries[qi]]
             /\ UNCHANGED qi
  /\ UNCHANGED <<driverName, dbTables, queries, fallbackCalls, tablesSlice, ti,
                 fullSchema, component, curTable>>

\* the params a schema request can carry; a missing string parameter reads
\* as "" (getStringParam)
SchemaRequests ==
  [hasComponent : BOOLEAN,
   component : {"tables", "columns", "relationships", "full", "indexes"},
   hasDatabase : BOOLEAN, database : {"a", "zz"},
   hasTable : BOOLEAN, table : {"t1", ""}]

\* an error return of handleSchemaExplorer before any catalog query
rejectSchemaRequest(text) ==
  /\ spc' = "done"
  /\ sret' = SchemaError(text)
  /\ curTable' = ""
  /\ UNCHANGED <<driverName, dbTables, queries, qi, fallbackCalls, tablesSlice,
                 ti, fullSchema, queryLog>>

\* the start of getTables, getColumns or getRelationships called by the
\* handler itself
startComponent(position, candidates, tbl) ==
  /\ spc' = position
  /\ queries' = candidates
  /\ qi' = 1
  /\ fallbackCalls' = fallbackCalls + 1
  /\ curTable' = tbl
  /\ UNCHANGED <<driverName, dbTables, tablesSlice, ti, fullSchema, queryLog, sret>>

\* A variant of the handler that starts getColumns whatever the table
\* parameter is.
handleSchemaExplorerAnyTable(params) ==
  /\ spc = "idle"
  /\ mu.writer = NoProc
  /\ component' = IF params.hasComponent THEN params.component ELSE ""
  /\ LET tbl == IF params.hasTable THEN params.table ELSE ""
         strategy == NewDatabaseStrategy(driverName)
     IN IF ~params.hasComponent
        THEN rejectSchemaRequest("component parameter is required")
        ELSE IF ~params.hasDatabase
        THEN rejectSchemaRequest("database parameter is required")
        ELSE IF params.database \notin DOMAIN connections
        THEN rejectSchemaRequest("failed to get database")
        ELSE CASE params.component = "tables" ->
                    startComponent("getTables", GetTablesQueries(strategy), "")
               [] params.component = "columns" ->
                    startComponent("getColumns", GetColumnsQueries(strategy, tbl), tbl)
               [] params.component = "relationships" ->
                    startComponent("getRelationships",
                                   GetRelationshipsQueries(strategy, tbl), tbl)
               [] params.component = "full" -> getFullSchema /\ curTable' = ""
               [] OTHER -> rejectSchemaRequest("invalid component")

\* handleSchemaExplorer on a manager without lazy loading, whose GetDatabase
\* is a lookup in connections under the read lock
handleSchemaExplorer(params) ==
  /\ spc = "idle"
  /\ mu.writer = NoProc
  /\ component' = IF params.hasComponent THEN params.component ELSE ""
  /\ LET tbl == IF params.hasTable THEN params.table ELSE ""
         strategy == NewDatabaseStrategy(driverName)
     IN IF ~params.hasComponent
        THEN rejectSchemaRequest("component parameter is required")
        ELSE IF ~params.hasDatabase
        THEN rejectSchemaRequest("database parameter is required")
        ELSE IF params.database \notin DOMAIN connections
        THEN rejectSchemaRequest("failed to get database")
        ELSE CASE params.component = "tables" ->
                    startComponent("getTables", GetTablesQueries(strategy), "")
               [] params.component = "columns" ->
                    IF tbl = ""
                    THEN rejectSchemaRequest(
                           "table parameter is required for columns component")
                    ELSE startComponent("getColumns",
                                        GetColumnsQueries(strategy, tbl), tbl)
               [] params.component = "relationships" ->
                    startComponent("getRelationships",
                                   GetRelationshipsQueries(strategy, tbl), tbl)
               [] params.component = "full" -> getFullSchema /\ curTable' = ""
               [] OTHER -> rejectSchemaRequest("invalid component")

(***************************************************************************)
(* Part II.e  Tool registration: the ToolRegistry of the MCP delivery      *)
(* layer and RegisterMCPDatabaseTools of package dbtools.                  *)
(***************************************************************************)

VARIABLES
  serverName,          \* ToolRegistry.serverName
  dbList,              \* what ListDatabases returns, in the order it returns it
  rpc,                 \* position of RegisterAllTools
  di,                  \* index of the database RegisterAllTools is at
  registrationErrors,  \* RegisterAllTools' counter of failed databases
  serverTools,         \* the tools added to the MCP server
  regRet,              \* what RegisterAllTools returned
  dpc,                 \* position of RegisterMCPDatabaseTools
  registryTools,       \* the tools of the dbtools tools.Registry
  lpc,                 \* position of a list_databases call
  lret                 \* the text list_databases returned

regVars == <<serverName, dbList, rpc, di, registrationErrors, serverTools,
             regRet, dpc, registryTools, lpc, lret>>

MaxDBs == 2

MaxAddFailures == 1

\* fmt's %d of a natural number
RECURSIVE Itoa(_)
Itoa(n) ==
  IF n >= 10 THEN Itoa(n \div 10) \o Itoa(n % 10)
  ELSE CASE n = 0 -> "0" [] n = 1 -> "1" [] n = 2 -> "2" [] n = 3 -> "3"
         [] n = 4 -> "4" [] n = 5 -> "5" [] n = 6 -> "6" [] n = 7 -> "7"
         [] n = 8 -> "8" [] n = 9 -> "9"

\* the tool types NewToolTypeFactory registers, by name
factoryToolTypes ==
  {"query", "execute", "transaction", "performance", "schema",
   "list_databases", "list", "filter_table_names"}

\* the tool types registerDatabaseTools registers per database
toolTypeNames == <<"query", "execute", "transaction", "performance", "schema">>

\* registerTool: the tool is added to the server unless the factory lacks the
\* type or AddTool fails; the result is the set of added tools (none or one)
registerTool(toolTypeName, name, dbID, addOk) ==
  IF toolTypeName \in factoryToolTypes /\ addOk
    THEN {[name |-> name, toolType |-> toolTypeName, dbID |-> dbID]}
    ELSE {}

\* RegisterAllTools up to its branch on the database list
RegisterAllTools ==
  /\ rpc = "new"
  /\ rpc' = IF Len(dbList) = 0 THEN "mock" ELSE "databases"
  /\ di' = 1
  /\ registrationErrors' = 0
  /\ UNCHANGED <<serverName, dbList, serverTools, regRet, dpc, registryTools,
                 lpc, lret>>

\* one turn of RegisterAllTools' loop: registerDatabaseTools for the database
\* at di; infoOk is the outcome of GetDatabaseInfo, failed the tool types whose
\* AddTool fails
registerDatabaseTools(infoOk, failed) ==
  /\ rpc = "databases"
  /\ di <= Len(dbList)
  /\ LET dbID == dbList[di]
         added ==
           UNION {registerTool(toolTypeNames[k],
                               "mcp_" \o serverName \o "_" \o toolTypeNames[k]
                                 \o "_" \o dbID,
                               dbID, toolTypeNames[k] \notin failed)
                  : k \in 1..Len(toolTypeNames)}
         errors == Len(toolTypeNames) - Cardinality(added)
     IN  IF ~infoOk
           THEN /\ registrationErrors' = registrationErrors + 1
                /\ UNCHANGED serverTools
           ELSE /\ serverTools' = serverTools \cup added
                /\ registrationErrors' =
                     IF errors > 0 THEN registrationErrors + 1
                                   ELSE registrationErrors
  /\ di' = di + 1
  /\ rpc' = IF di = Len(dbList) THEN "common" ELSE "databases"
  /\ UNCHANGED <<serverName, dbList, regRet, dpc, registryTools, lpc, lret>>

\* registerCommonTools and the return of RegisterAllTools
registerCommonTools(addOk) ==
  /\ rpc = "common"
  /\ serverTools' =
       serverTools \cup
         (IF "list_databases" \in factoryToolTypes
            THEN registerTool("list_databases",
                              "mcp_" \o serverName \o "_list_databases", "",
                              addOk)
            ELSE {})
  /\ regRet' =
       IF registrationErrors > 0
         THEN "errors occurred while registering tools for "
                \o Itoa(registrationErrors) \o " databases"
         ELSE "nil"
  /\ rpc' = "done"
  /\ UNCHANGED <<serverName, dbList, di, registrationErrors, dpc,
                 registryTools, lpc, lret>>

\* RegisterMockTools: one tool per tool type of the factory, bound to the
\* database ID "mock"; a failed AddTool is logged and skipped
RegisterMockTools(failed) ==
  /\ rpc = "mock"
  /\ serverTools' =
       serverTools \cup
         UNION {registerTool(t, "mcp_" \o serverName \o "_mock_" \o t, "mock",
                             t \notin failed)
                : t \in factoryToolTypes}
  /\ regRet' = "nil"
  /\ rpc' = "done"
  /\ UNCHANGED <<serverName, dbList, di, registrationErrors, dpc,
                 registryTools, lpc, lret>>

\* the tools registerMCPMockTools registers
registerMCPMockTools ==
  {[name |-> "query_" \o "mock", handler |-> "mock_query", dbID |-> "mock"],
   [name |-> "list_databases", handler |-> "mock_list_databases", dbID |-> ""]}

RegisterMCPDatabaseTools ==
  /\ dpc = "new"
  /\ registryTools' =
       IF Len(dbList) = 0
         THEN registerMCPMockTools
         ELSE {[name |-> kind \o "_" \o dbList[i], handler |-> kind,
                dbID |-> dbList[i]]
               : kind \in {"query", "execute", "transaction", "performance",
                           "schema"},
                 i \in 1..Len(dbList)}
                \cup {[name |-> "list_databases", handler |-> "list_databases",
                       dbID |-> ""]}
  /\ dpc' = "done"
  /\ UNCHANGED <<serverName, dbList, rpc, di, registrationErrors, serverTools,
                 regRet, lpc, lret>>

\* the text the registered list_databases handler builds from the list dbs,
\* line by line from the line at i on
RECURSIVE listDatabasesLines(_, _)
listDatabasesLines(dbs, i) ==
  IF i > Len(dbs)
    THEN ""
    ELSE Itoa(i) \o ". " \o dbs[i] \o "\n" \o listDatabasesLines(dbs, i + 1)

listDatabasesHandler(dbs) ==
  "Available databases:\n\n" \o listDatabasesLines(dbs, 1)
    \o (IF Len(dbs) = 0 THEN "No databases configured.\n" ELSE "")

\* a call of the tool registered under the name list_databases
list_databases ==
  /\ dpc = "done"
  /\ lpc = "idle"
  /\ \E t \in registryTools :
       /\ t.name = "list_databases"
       /\ lret' = IF t.handler = "mock_list_databases"
                    THEN "Available databases:\n\n1. mock (not connected)\n"
                    ELSE listDatabasesHandler(dbList)
  /\ lpc' = "done"
  /\ UNCHANGED <<serverName, dbList, rpc, di, registrationErrors, serverTools,
                 regRet, dpc, registryTools>>

(***************************************************************************)
(* Part II.f  The filter_table_names tool and the FilterTableNames use     *)
(* case.  A table name and a pattern are the sequence of their bytes, so   *)
(* that lower-casing, substring search and ordering are computed.          *)
(***************************************************************************)

VARIABLES
  infoTables,    \* the table names of info["tables"], in the listing's order
  tableNameKey,  \* the key under which the rows of the listing hold the name
  fpc,           \* position of a filter_table_names request
  freq,          \* the request HandleRequest received
  useCaseCalls,  \* the FilterTableNames calls the use case has received
  infoCalls,     \* number of GetDatabaseInfo calls of the use case
  fret           \* what HandleRequest returned

filterVars == <<infoTables, tableNameKey, fpc, freq, useCaseCalls, infoCalls,
                fret>>

MaxFilterTables == 4

\* the tables wp_users, wp_posts, users and WP_Options
FilterTables ==
  {<<119, 112, 95, 117, 115, 101, 114, 115>>,
   <<119, 112, 95, 112, 111, 115, 116, 115>>,
   <<117, 115, 101, 114, 115>>,
   <<87, 80, 95, 79, 112, 116, 105, 111, 110, 115>>}

\* the patterns "WP_", "wp_", "user", "xyz" and ""
Patterns == {<<87, 80, 95>>, <<119, 112, 95>>, <<117, 115, 101, 114>>,
             <<120, 121, 122>>, <<>>}

\* strings.ToLower on ASCII
ToLower(s) == [k \in 1..Len(s) |-> IF s[k] \in 65..90 THEN s[k] + 32 ELSE s[k]]

\* strings.Contains
Contains(s, substr) ==
  \E off \in 0..(Len(s) - Len(substr)) :
    \A k \in 1..Len(substr) : s[off + k] = substr[k]

\* the order < of Go strings: byte by byte, a proper prefix first
stringLess(a, b) ==
  \E k \in 1..(Len(b)) :
    /\ \A j \in 1..(k - 1) : j <= Len(a) /\ a[j] = b[j]
    /\ k - 1 <= Len(a)
    /\ (k > Len(a) \/ a[k] < b[k])

\* x put at its place in the ascending sequence s
RECURSIVE insertSorted(_, _)
insertSorted(x, s) ==
  IF s = <<>> THEN <<x>>
  ELSE IF stringLess(s[1], x) THEN <<s[1]>> \o insertSorted(x, Tail(s))
  ELSE <<x>> \o s

\* A variant of the sort that leaves the matches in the order of the listing.
keepOrder(s) == s

\* sort.Strings
RECURSIVE sortStrings(_)
sortStrings(s) ==
  IF s = <<>> THEN <<>> ELSE insertSorted(s[1], sortStrings(Tail(s)))

\* the names of the listing, from the row at i on, whose lower-cased form
\* contains patternLower
RECURSIVE matchesFrom(_, _, _)
matchesFrom(tables, i, patternLower) ==
  IF i > Len(tables) THEN <<>>
  ELSE (IF tableNameKey \in {"table_name", "TABLE_NAME"}
           /\ Contains(ToLower(tables[i]), patternLower)
          THEN <<tables[i]>> ELSE <<>>)
       \o matchesFrom(tables, i + 1, patternLower)

\* DatabaseUseCase.FilterTableNames; infoOk and tablesOk are the outcomes of
\* GetDatabaseInfo and of the type assertion on info["tables"]
FilterTableNames(dbID, pattern, infoOk, tablesOk) ==
  IF ~infoOk THEN [matches |-> <<>>, err |-> "failed to get database info"]
  ELSE IF ~tablesOk THEN [matches |-> <<>>, err |-> "invalid tables data format"]
  ELSE [matches |-> sortStrings(matchesFrom(infoTables, 1, ToLower(pattern))),
        err |-> ""]

\* extractDatabaseIDFromName: the part of the tool name after its last "_";
\* a tool name is the sequence of its parts
extractDatabaseIDFromName(name) ==
  IF Len(name) < 2 THEN "" ELSE name[Len(name)]

NoFilterReply == [isNil |-> TRUE, err |-> "", pattern |-> <<>>, lines |-> <<>>]

FilterRequests ==
  [name : {<<"filter", "table", "names", "mydb">>,
           <<"filter", "table", "names", "testdb">>},
   dbID : {"", "testdb"},
   hasPattern : BOOLEAN,
   pattern : Patterns]

\* A variant of the handler that passes every pattern on to the use case.
HandleRequestAnyPattern(request, dbID, infoOk, tablesOk) ==
  LET id == IF dbID = "" THEN extractDatabaseIDFromName(request.name) ELSE dbID
      res == FilterTableNames(id, request.pattern, infoOk, tablesOk)
  IN  /\ fpc = "idle"
      /\ fpc' = "done"
      /\ freq' = [request EXCEPT !.dbID = dbID]
      /\ useCaseCalls' = Append(useCaseCalls, [dbID |-> id, pattern |-> request.pattern])
      /\ infoCalls' = infoCalls + 1
      /\ fret' = [isNil |-> res.err # "", err |-> res.err,
                  pattern |-> request.pattern, lines |-> res.matches]
      /\ UNCHANGED <<infoTables, tableNameKey>>

\* FilterTableNamesTool.HandleRequest for a tool bound to dbID: the reply
\* holds the pattern and the numbered lines of the text, or the error
HandleRequest(request, dbID, infoOk, tablesOk) ==
  LET id == IF dbID = "" THEN extractDatabaseIDFromName(request.name) ELSE dbID
      res == FilterTableNames(id, request.pattern, infoOk, tablesOk)
  IN  /\ fpc = "idle"
      /\ fpc' = "done"
      /\ freq' = [request EXCEPT !.dbID = dbID]
      /\ IF ~request.hasPattern \/ request.pattern = <<>>
           THEN /\ fret' = [NoFilterReply EXCEPT
                              !.err = "pattern parameter is required"]
                /\ UNCHANGED <<useCaseCalls, infoCalls>>
           ELSE /\ useCaseCalls' =
                     Append(useCaseCalls, [dbID |-> id, pattern |-> request.pattern])
                /\ infoCalls' = infoCalls + 1
                /\ fret' = [isNil |-> res.err # "", err |-> res.err,
                            pattern |-> request.pattern, lines |-> res.matches]
      /\ UNCHANGED <<infoTables, tableNameKey>>

(***************************************************************************)
(* Part II.g  InitDatabase of package dbtools: the choice of the source of *)
(* the connection list, then LoadConfig, SetLazyLoading and Connect.       *)
(***************************************************************************)

VARIABLES
  initCfg,        \* what InitDatabase was called with: cfg and the environment
  ipc,            \* position of InitDatabase
  multiDBConfig,  \* the local multiDBConfig of InitDatabase
  iret            \* what InitDatabase returned

initVars == <<initCfg, ipc, multiDBConfig, iret>>

MaxSourceConns == 1
MaxStarts == 1
MaxLines == 2
MaxSends == 1

\* json.Unmarshal into a fresh MultiDBConfig: a document with a syntax error
\* decodes nothing; one with a value of the wrong type decodes the rest and
\* still reports the error
Unmarshal(doc) ==
  [connections |-> IF doc.state = "syntax" THEN <<>> ELSE doc.connections,
   err |-> doc.state # "ok"]

\* the JSON documents of a source whose connections are of the set conns
Documents(conns) ==
  {d \in [state : {"ok", "syntax", "type"},
          connections : SeqsUpTo(conns, MaxSourceConns)] :
     d.state = "syntax" => d.connections = <<>>}

\* cfg and the environment of an InitDatabase call
InitInputs ==
  [file : [state : {"none", "unreadable"}, connections : {<<>>}]
            \cup Documents({[id |-> "a", type |-> "mysql", path |-> ""]}),
   inline : SeqsUpTo({[id |-> "b", type |-> "postgres", path |-> ""]},
                     MaxSourceConns),
   dbConfig : [state : {"unset"}, connections : {<<>>}]
                \cup Documents({[id |-> "c", type |-> "sqlite", path |-> "/db"]}),
   dbHost : {"", "h"},
   dbUser : {"", "u"},
   dbType : {"", "mssql"},
   lazyLoading : BOOLEAN]

NilConfig == [isNil |-> TRUE, connections |-> <<>>]

NoConnections(c) == c.isNil \/ Len(c.connections) = 0

\* the configuration file, when cfg names one and it can be read
fromConfigFile(in) ==
  IF in.file.state \in {"none", "unreadable"}
    THEN NilConfig
    ELSE [isNil |-> FALSE, connections |-> Unmarshal(in.file).connections]

\* the inline connections of cfg, else the DB_CONFIG variable
fromDirectConfig(c, in) ==
  IF ~NoConnections(c) THEN c
  ELSE IF Len(in.inline) > 0
    THEN [isNil |-> FALSE, connections |-> in.inline]
  ELSE IF in.dbConfig.state # "unset"
    THEN [isNil |-> FALSE, connections |-> Unmarshal(in.dbConfig).connections]
  ELSE c

\* A variant of the choice that adds the legacy connection to whatever the
\* earlier sources gave.
addLegacyEnv(c, in) ==
  IF in.dbHost # "" /\ in.dbUser # ""
    THEN [isNil |-> FALSE,
          connections |-> Append(c.connections,
                                 [id |-> "default", type |-> "mysql", path |-> ""])]
    ELSE c

\* the single connection "default" of the DB_* variables
fromLegacyEnv(c, in) ==
  IF NoConnections(c) /\ in.dbHost # "" /\ in.dbUser # ""
    THEN [isNil |-> FALSE,
          connections |-> <<[id |-> "default",
                             type |-> IF in.dbType = "" THEN "mysql"
                                                        ELSE in.dbType,
                             path |-> ""]>>]
    ELSE c

\* InitDatabase up to the check of the chosen configuration
InitDatabase(in) ==
  /\ ipc = "new"
  /\ initCfg' = in
  /\ multiDBConfig' =
       fromLegacyEnv(fromDirectConfig(fromConfigFile(in), in), in)
  /\ IF NoConnections(multiDBConfig')
       THEN /\ iret' = "no database configuration provided"
            /\ ipc' = "done"
       ELSE /\ iret' = ""
            /\ ipc' = "load"
  /\ UNCHANGED mgrVars

\* json.Marshal of the chosen configuration and dbManager.LoadConfig
InitLoadConfig ==
  /\ ipc = "load"
  /\ LoadConfig(multiDBConfig.connections)
  /\ IF \E k \in 1..Len(multiDBConfig.connections) :
          ~ValidEntry(multiDBConfig.connections[k])
       THEN /\ iret' = "failed to load database config"
            /\ ipc' = "done"
       ELSE /\ iret' = ""
            /\ ipc' = "lazy"
  /\ UNCHANGED <<initCfg, multiDBConfig>>

\* SetLazyLoading(true) when cfg asks for it
InitSetLazyLoading ==
  /\ ipc = "lazy"
  /\ IF initCfg.lazyLoading THEN SetLazyLoading("g1", TRUE)
                            ELSE UNCHANGED mgrVars
  /\ ipc' = "connect"
  /\ UNCHANGED <<initCfg, multiDBConfig, iret>>

\* the call of dbManager.Connect
InitConnect ==
  /\ ipc = "connect"
  /\ Connect("g1")
  /\ ipc' = "connecting"
  /\ UNCHANGED <<initCfg, multiDBConfig, iret>>

\* the return of Connect and of InitDatabase
InitReturn ==
  /\ ipc = "connecting"
  /\ mpc["g1"] = "connect_ret"
  /\ iret' = IF mret["g1"].kind = "error"
               THEN "failed to connect to databases" ELSE "nil"
  /\ Return("g1")
  /\ ipc' = "done"
  /\ UNCHANGED <<initCfg, multiDBConfig>>

InitIdle ==
  /\ initCfg = [file |-> [state |-> "none", connections |-> <<>>],
                inline |-> <<>>,
                dbConfig |-> [state |-> "unset", connections |-> <<>>],
                dbHost |-> "", dbUser |-> "", dbType |-> "",
                lazyLoading |-> FALSE]
  /\ ipc = "new"
  /\ multiDBConfig = NilConfig
  /\ iret = ""

(***************************************************************************)
(* Part II.h  The masked connection string of a database.                  *)
(***************************************************************************)

VARIABLES
  dConfig,  \* the config of a database
  cspc,     \* position of a ConnectionString call
  connStr   \* what ConnectionString returned

csVars == <<dConfig, cspc, connStr>>

\* the configurations of a database: every dialect and an unknown one, with
\* and without the optional settings
DatabaseConfigs ==
  [Type : {"mysql", "postgres", "oracle", "sqlite", "mssql"},
   Host : {"localhost"},
   Port : {0, 5432},
   User : {"testuser"},
   Password : {"", "secret", "s3"},
   Name : {"TESTDB", ":memory:"},
   SSLMode : {"", "disable"},
   ApplicationName : {""},
   ServiceName : {"", "mydb_high"},
   WalletLocation : {"", "/app/wallet"},
   TNSEntry : {"", "PROD_DB"},
   DatabasePath : {"", "/path/to/db.sqlite"},
   EncryptionKey : {"", "secret123", "k2"}]

\* strings.Join(params, " ")
RECURSIVE Join(_)
Join(params) ==
  IF Len(params) = 0 THEN ""
  ELSE IF Len(params) = 1 THEN params[1]
  ELSE params[1] \o " " \o Join(Tail(params))

\* A variant of the masking that prints the password and the encryption key.
ConnectionStringUnmasked(config) ==
  config.User \o ":" \o config.Password \o "@" \o config.Host
    \o " key=" \o config.EncryptionKey

\* database.ConnectionString
ConnectionString(config) ==
  CASE config.Type = "mysql" ->
         config.User \o ":***@tcp(" \o config.Host \o ":" \o Itoa(config.Port)
           \o ")/" \o config.Name
    [] config.Type = "postgres" ->
         Join(<<"host=" \o config.Host, "port=" \o Itoa(config.Port),
                "user=" \o config.User, "password=***",
                "dbname=" \o config.Name>>
              \o (IF config.SSLMode # ""
                    THEN <<"sslmode=" \o config.SSLMode>> ELSE <<>>)
              \o (IF config.ApplicationName # ""
                    THEN <<"application_name=" \o config.ApplicationName>>
                    ELSE <<>>))
    [] config.Type = "oracle" ->
         IF config.WalletLocation # ""
           THEN "oracle://" \o config.User \o ":***@"
                  \o (IF config.ServiceName = "" THEN config.Name
                                                 ELSE config.ServiceName)
                  \o " (wallet: " \o config.WalletLocation \o ")"
         ELSE IF config.TNSEntry # ""
           THEN "oracle://" \o config.User \o ":***@" \o config.TNSEntry
                  \o " (TNS)"
         ELSE "oracle://" \o config.User \o ":***@" \o config.Host \o ":"
                \o Itoa(config.Port) \o "/" \o config.Name
    [] config.Type = "sqlite" ->
         LET dbPath == IF config.DatabasePath = "" THEN config.Name
                                                   ELSE config.DatabasePath
         IN  IF dbPath = ":memory:" THEN "SQLite in-memory database"
             ELSE IF config.EncryptionKey # ""
               THEN "SQLite database: " \o dbPath \o " (encrypted)"
             ELSE "SQLite database: " \o dbPath
    [] OTHER -> "unknown"

\* a call of ConnectionString on the database
CallConnectionString ==
  /\ cspc = "idle"
  /\ connStr' = ConnectionString(dConfig)
  /\ cspc' = "done"
  /\ UNCHANGED dConfig

ConnStringIdle ==
  /\ cspc = "idle"
  /\ connStr = ""

(***************************************************************************)
(* II.i  The database configuration of pkg/db: Config.SetDefaults,         *)
(* buildOracleConnStr with addOracleOptions, and the way from a            *)
(* DatabaseConnectionConfig to the handle (buildDatabaseConfig,            *)
(* NewDatabase, QueryTimeout).  Durations are counted in seconds.  The     *)
(* configurations used here leave Edition, Pooling, StandbySessions and    *)
(* the custom Options unset.                                               *)
(***************************************************************************)
VARIABLES
  connCfg,   \* the configuration a function of this part is called with
  cfgpc,     \* "idle", or the function that was called
  cfgRes     \* what the function returned

cfgVars == <<connCfg, cfgpc, cfgRes>>

BaseConfig ==
  [Type |-> "mysql", Host |-> "localhost", Port |-> 0, User |-> "user",
   Password |-> "pass", Name |-> "", SSLMode |-> "", ConnectTimeout |-> 0,
   QueryTimeout |-> 0, DatabasePath |-> "", CacheSize |-> 0,
   JournalMode |-> "", ServiceName |-> "", SID |-> "", WalletLocation |-> "",
   TNSAdmin |-> "", TNSEntry |-> "", NLSLang |-> "", MaxOpenConns |-> 0,
   MaxIdleConns |-> 0, ConnMaxLifetime |-> 0, ConnMaxIdleTime |-> 0]

\* configurations that differ in the pool settings, in the timeouts, and in
\* the Oracle addressing
PoolConfigs ==
  {[BaseConfig EXCEPT !.Type = t, !.MaxOpenConns = o, !.MaxIdleConns = i,
                      !.ConnMaxLifetime = l, !.ConnMaxIdleTime = d] :
     t \in SupportedTypes, o \in {0, 25, 7}, i \in {0, 5, 3},
     l \in {0, 300, 60}, d \in {0, 300}}

TimeoutConfigs ==
  {[BaseConfig EXCEPT !.Type = t, !.Name = "db", !.ConnectTimeout = c,
                      !.QueryTimeout = q] :
     t \in SupportedTypes, c \in {0, 5}, q \in {0, 60}}

OracleConfigs ==
  {[BaseConfig EXCEPT !.Type = "oracle", !.Port = p, !.Name = n,
                      !.ServiceName = s, !.SID = sid, !.WalletLocation = w,
                      !.TNSEntry = e, !.TNSAdmin = a] :
     p \in {0, 1522}, n \in {"", "XE"}, s \in {"", "TESTDB"},
     sid \in {"", "ORCL"}, w \in {"", "/app/wallet"},
     e \in {"", "PROD_DB"}, a \in {"", "/opt/oracle/admin"}}

Configurations == PoolConfigs \cup TimeoutConfigs \cup OracleConfigs

\* Config.SetDefaults, statement by statement
SetDefaults(c) ==
  LET c1 == [c EXCEPT !.MaxOpenConns = IF @ = 0 THEN 25 ELSE @,
                      !.MaxIdleConns = IF @ = 0 THEN 5 ELSE @,
                      !.ConnMaxLifetime = IF @ = 0 THEN 300 ELSE @,
                      !.ConnMaxIdleTime = IF @ = 0 THEN 300 ELSE @]
      c2 == IF c1.Type = "postgres" /\ c1.SSLMode = ""
            THEN [c1 EXCEPT !.SSLMode = "disable"] ELSE c1
      c3 == IF c2.Type = "oracle"
            THEN [c2 EXCEPT
                    !.Port = IF @ = 0 THEN 1521 ELSE @,
                    !.ServiceName = IF @ = "" /\ c2.SID = "" THEN c2.Name ELSE @,
                    !.NLSLang = IF @ = "" THEN "AMERICAN_AMERICA.AL32UTF8" ELSE @,
                    !.MaxOpenConns = IF @ = 25 THEN 50 ELSE @,
                    !.MaxIdleConns = IF @ = 5 THEN 10 ELSE @,
                    !.ConnMaxLifetime = IF @ = 300 THEN 1800 ELSE @]
            ELSE c2
      c4 == IF c3.Type = "sqlite"
            THEN [c3 EXCEPT
                    !.JournalMode = IF @ = "" THEN "WAL" ELSE @,
                    !.CacheSize = IF @ = 0 THEN 2000 ELSE @,
                    !.DatabasePath = IF @ = "" /\ c3.Name # "" THEN c3.Name ELSE @]
            ELSE c3
  IN [c4 EXCEPT !.ConnectTimeout = IF @ = 0 THEN 10 ELSE @,
                !.QueryTimeout = IF @ = 0 THEN 30 ELSE @]

\* the orders in which the range loop of addOracleOptions may meet the keys
\* of params
ParamOrders == {<<"timeout", "language">>, <<"language", "timeout">>}

\* strings.Join(paramPairs, "&") for the pairs of the keys in keys that
\* params holds
RECURSIVE joinPairs(_, _)
joinPairs(keys, config) ==
  IF keys = <<>> THEN ""
  ELSE LET key == Head(keys)
           present == IF key = "timeout" THEN config.ConnectTimeout > 0
                      ELSE config.NLSLang # ""
           pair == IF key = "timeout" THEN "timeout=" \o Itoa(config.ConnectTimeout)
                   ELSE "language=" \o config.NLSLang
           rest == joinPairs(Tail(keys), config)
       IN IF ~present THEN rest
          ELSE IF rest = "" THEN pair
          ELSE pair \o "&" \o rest

\* addOracleOptions(connStr, config); hasQuery tells whether connStr holds a "?"
addOracleOptions(str, hasQuery, config, order) ==
  IF joinPairs(order, config) = "" THEN str
  ELSE str \o (IF hasQuery THEN "&" ELSE "?") \o joinPairs(order, config)

\* buildOracleConnStr
buildOracleConnStr(config, order) ==
  IF config.TNSEntry # "" /\ config.TNSAdmin # ""
  THEN addOracleOptions(
         "oracle://" \o config.User \o ":" \o config.Password \o "@"
           \o config.TNSEntry \o "?tns admin=" \o config.TNSAdmin,
         TRUE, config, order)
  ELSE IF config.WalletLocation # ""
  THEN addOracleOptions(
         "oracle://" \o config.User \o ":" \o config.Password \o "@"
           \o (IF config.ServiceName = "" THEN config.Name ELSE config.ServiceName)
           \o "?wallet location=" \o config.WalletLocation,
         TRUE, config, order)
  ELSE addOracleOptions(
         "oracle://" \o config.User \o ":" \o config.Password \o "@"
           \o config.Host \o ":" \o Itoa(IF config.Port = 0 THEN 1521 ELSE config.Port)
           \o "/" \o (IF config.ServiceName # "" THEN config.ServiceName
                      ELSE IF config.SID # "" THEN config.SID ELSE config.Name),
         FALSE, config, order)

\* buildDatabaseConfig: the Config made from a DatabaseConnectionConfig.  The
\* sqlite case copies neither timeout.
buildDatabaseConfig(cfg) ==
  LET common == [BaseConfig EXCEPT !.Type = cfg.Type, !.Host = cfg.Host,
                                   !.Port = cfg.Port, !.User = cfg.User,
                                   !.Password = cfg.Password, !.Name = cfg.Name]
      timed == [common EXCEPT !.ConnectTimeout = cfg.ConnectTimeout,
                              !.QueryTimeout = cfg.QueryTimeout]
      typed == CASE cfg.Type = "postgres" -> [timed EXCEPT !.SSLMode = cfg.SSLMode]
                 [] cfg.Type = "oracle" ->
                      [timed EXCEPT !.ServiceName = cfg.ServiceName,
                                    !.SID = cfg.SID,
                                    !.WalletLocation = cfg.WalletLocation,
                                    !.TNSAdmin = cfg.TNSAdmin,
                                    !.TNSEntry = cfg.TNSEntry,
                                    !.NLSLang = cfg.NLSLang]
                 [] cfg.Type = "sqlite" ->
                      [common EXCEPT !.DatabasePath = cfg.DatabasePath,
                                     !.CacheSize = cfg.CacheSize,
                                     !.JournalMode = cfg.JournalMode]
                 [] OTHER -> timed
  IN [typed EXCEPT !.MaxOpenConns = cfg.MaxOpenConns,
                   !.MaxIdleConns = cfg.MaxIdleConns,
                   !.ConnMaxLifetime = cfg.ConnMaxLifetime,
                   !.ConnMaxIdleTime = cfg.ConnMaxIdleTime]

\* NewDatabase: the handle keeps the configuration with its defaults set
NewDatabase(config) ==
  [config |-> SetDefaults(config),
   driverName |-> IF config.Type = "sqlite" THEN "sqlite" ELSE config.Type]

\* database.QueryTimeout
QueryTimeout(d) == d.config.QueryTimeout

CallSetDefaults ==
  /\ cfgpc = "idle"
  /\ cfgRes' = SetDefaults(connCfg)
  /\ cfgpc' = "SetDefaults"
  /\ UNCHANGED connCfg

\* NewDatabase on an oracle configuration: the DSN it builds
CallBuildOracleConnStr ==
  /\ cfgpc = "idle"
  /\ connCfg.Type = "oracle"
  /\ \E order \in ParamOrders :
       cfgRes' = buildOracleConnStr(SetDefaults(connCfg), order)
  /\ cfgpc' = "buildOracleConnStr"
  /\ UNCHANGED connCfg

\* createAndConnectDatabase up to the handle
CallNewDatabase ==
  /\ cfgpc = "idle"
  /\ cfgRes' = NewDatabase(buildDatabaseConfig(connCfg))
  /\ cfgpc' = "NewDatabase"
  /\ UNCHANGED connCfg

\* the caller is done with the result
ConfigReturn ==
  /\ cfgpc # "idle"
  /\ cfgpc' = "idle"
  /\ cfgRes' = ""
  /\ UNCHANGED connCfg

ConfigAtRest ==
  /\ connCfg = BaseConfig
  /\ cfgpc = "idle"
  /\ cfgRes = ""

(***************************************************************************)
(* II.j  The stdio transport (internal/infrastructure/transport).  Start,  *)
(* Stop and the test of started in Send and SendRaw run under the mutex    *)
(* and are one step each; a send on a channel is a step of its own, taken  *)
(* together with the receiver, and panics when the channel is closed.  A   *)
(* panic ends the process.  The receiver of the request and error          *)
(* channels is the caller of Receive.  Writes to stdout succeed.           *)
(***************************************************************************)
VARIABLES
  started,      \* StdioTransport.started
  chansClosed,  \* Stop has closed eventChan, requestChan and errorChan
  ctxDone,      \* the context given to Start is cancelled
  panicked,     \* a goroutine panicked
  starts,       \* how often Start spawned the two goroutines
  hepc,         \* per Start: position of its handleEvents goroutine
  hevent,       \* per Start: the event handleEvents took from eventChan
  hrpc,         \* per Start: position of its handleRequests goroutine
  hline,        \* per Start: index in lineLog of the line it works on
  lineLog,      \* the lines read from stdin so far, each with what was done
                \* for it: "forwarded", "replied"
  stdout,       \* what was written to the writer, in order
  requests,     \* the requests received from requestChan, in order
  errorsSeen,   \* how many errors were received from errorChan
  sends,        \* how many Send calls were made
  cpc,          \* per caller: position in its call
  cev,          \* per caller: the event of its Send
  cret          \* per caller: what its call returned

trVars == <<started, chansClosed, ctxDone, panicked, starts, hepc, hevent,
            hrpc, hline, lineLog, stdout, requests, errorsSeen, sends, cpc,
            cev, cret>>

Callers == {"c1", "c2"}
Instances == 1..MaxStarts

\* entities.JSONRPCVersion, entities.ErrorCodeParseError and
\* entities.ErrorCodeInvalidRequest
JSONRPCVersion == "2.0"
ErrorCodeParseError == -32700
ErrorCodeInvalidRequest == -32600

\* what ReadString and json.Unmarshal make of a line: a read error, an empty
\* line, a line that is not JSON, and a request with its jsonrpc and id
Lines ==
  {[kind |-> "readerr", jsonrpc |-> "", id |-> ""],
   [kind |-> "empty", jsonrpc |-> "", id |-> ""],
   [kind |-> "invalid", jsonrpc |-> "", id |-> ""],
   [kind |-> "request", jsonrpc |-> "1.0", id |-> "1"],
   [kind |-> "request", jsonrpc |-> "1.0", id |-> "2"],
   [kind |-> "request", jsonrpc |-> "2.0", id |-> "1"]}

\* an event that json.Marshal accepts, and one it rejects
Events == {"event", "unmarshalable"}

\* the error response SendRaw is given
errorResponse(code, id) == [jsonrpc |-> JSONRPCVersion, id |-> id, code |-> code]

Start(c) ==
  /\ ~panicked
  /\ cpc[c] = "idle"
  /\ IF started
     THEN /\ cret' = [cret EXCEPT ![c] = "transport already started"]
          /\ UNCHANGED <<started, starts, hepc, hrpc>>
     ELSE /\ starts < MaxStarts
          /\ starts' = starts + 1
          /\ hepc' = [hepc EXCEPT ![starts + 1] = "select"]
          /\ hrpc' = [hrpc EXCEPT ![starts + 1] = "loop"]
          /\ started' = TRUE
          /\ cret' = [cret EXCEPT ![c] = "ok"]
  /\ cpc' = [cpc EXCEPT ![c] = "start_ret"]
  /\ UNCHANGED <<chansClosed, ctxDone, panicked, hevent, hline, lineLog,
                 stdout, requests, errorsSeen, sends, cev>>

\* Stop: closes the three channels; close of a closed channel panics
Stop(c) ==
  /\ ~panicked
  /\ cpc[c] = "idle"
  /\ IF ~started
     THEN /\ cpc' = [cpc EXCEPT ![c] = "stop_ret"]
          /\ cret' = [cret EXCEPT ![c] = "ok"]
          /\ UNCHANGED <<started, chansClosed, panicked>>
     ELSE IF chansClosed
     THEN /\ panicked' = TRUE
          /\ cpc' = [cpc EXCEPT ![c] = "stop_panic"]
          /\ UNCHANGED <<started, chansClosed, cret>>
     ELSE /\ chansClosed' = TRUE
          /\ started' = FALSE
          /\ cpc' = [cpc EXCEPT ![c] = "stop_ret"]
          /\ cret' = [cret EXCEPT ![c] = "ok"]
          /\ UNCHANGED panicked
  /\ UNCHANGED <<ctxDone, starts, hepc, hevent, hrpc, hline, lineLog, stdout,
                 requests, errorsSeen, sends, cev>>

\* Send up to the unlock: the test of started under the mutex
Send(c, event) ==
  /\ ~panicked
  /\ cpc[c] = "idle"
  /\ sends < MaxSends
  /\ sends' = sends + 1
  /\ cev' = [cev EXCEPT ![c] = event]
  /\ IF ~started
     THEN /\ cret' = [cret EXCEPT ![c] = "transport not started"]
          /\ cpc' = [cpc EXCEPT ![c] = "send_ret"]
     ELSE /\ cpc' = [cpc EXCEPT ![c] = "sending"]
          /\ UNCHANGED cret
  /\ UNCHANGED <<started, chansClosed, ctxDone, panicked, starts, hepc,
                 hevent, hrpc, hline, lineLog, stdout, requests, errorsSeen>>

\* Send, t.eventChan <- event: received by a handleEvents goroutine, or a
\* panic when Stop has closed the channel
SendOnEventChan(c) ==
  /\ ~panicked
  /\ cpc[c] = "sending"
  /\ IF chansClosed
     THEN /\ panicked' = TRUE
          /\ cpc' = [cpc EXCEPT ![c] = "send_panic"]
          /\ UNCHANGED <<hepc, hevent, cret>>
     ELSE \E i \in Instances :
            /\ hepc[i] = "select"
            /\ hepc' = [hepc EXCEPT ![i] = "write"]
            /\ hevent' = [hevent EXCEPT ![i] = cev[c]]
            /\ cret' = [cret EXCEPT ![c] = "ok"]
            /\ cpc' = [cpc EXCEPT ![c] = "send_ret"]
            /\ UNCHANGED panicked
  /\ UNCHANGED <<started, chansClosed, ctxDone, starts, hrpc, hline, lineLog,
                 stdout, requests, errorsSeen, sends, cev>>

\* the caller has its result
TransportReturn(c) ==
  /\ ~panicked
  /\ cpc[c] \in {"start_ret", "stop_ret", "send_ret"}
  /\ cpc' = [cpc EXCEPT ![c] = "idle"]
  /\ cret' = [cret EXCEPT ![c] = ""]
  /\ cev' = [cev EXCEPT ![c] = ""]
  /\ UNCHANGED <<started, chansClosed, ctxDone, panicked, starts, hepc,
                 hevent, hrpc, hline, lineLog, stdout, requests, errorsSeen,
                 sends>>

\* the context of Start is cancelled
CancelContext ==
  /\ ~panicked
  /\ ~ctxDone
  /\ starts > 0
  /\ ctxDone' = TRUE
  /\ UNCHANGED <<started, chansClosed, panicked, starts, hepc, hevent, hrpc,
                 hline, lineLog, stdout, requests, errorsSeen, sends, cpc,
                 cev, cret>>

\* handleEvents, the select: the channel is closed, or the context is done
\* (a value on the channel is taken in SendOnEventChan)
handleEventsExit(i) ==
  /\ ~panicked
  /\ hepc[i] = "select"
  /\ chansClosed \/ ctxDone
  /\ hepc' = [hepc EXCEPT ![i] = "exited"]
  /\ UNCHANGED <<started, chansClosed, ctxDone, panicked, starts, hevent,
                 hrpc, hline, lineLog, stdout, requests, errorsSeen, sends,
                 cpc, cev, cret>>

\* handleEvents, writeEvent: the event is marshalled and written
writeEvent(i) ==
  /\ ~panicked
  /\ hepc[i] = "write"
  /\ IF hevent[i] = "unmarshalable"
     THEN /\ hepc' = [hepc EXCEPT ![i] = "send_err"]
          /\ UNCHANGED <<stdout, hevent>>
     ELSE /\ stdout' = Append(stdout, [event |-> hevent[i]])
          /\ hepc' = [hepc EXCEPT ![i] = "select"]
          /\ hevent' = [hevent EXCEPT ![i] = ""]
  /\ UNCHANGED <<started, chansClosed, ctxDone, panicked, starts, hrpc,
                 hline, lineLog, requests, errorsSeen, sends, cpc, cev, cret>>

\* handleEvents, t.errorChan <- err
handleEventsSendError(i) ==
  /\ ~panicked
  /\ hepc[i] = "send_err"
  /\ IF chansClosed
     THEN /\ panicked' = TRUE
          /\ hepc' = [hepc EXCEPT ![i] = "panic"]
          /\ UNCHANGED <<errorsSeen, hevent>>
     ELSE /\ errorsSeen' = errorsSeen + 1
          /\ hepc' = [hepc EXCEPT ![i] = "select"]
          /\ hevent' = [hevent EXCEPT ![i] = ""]
          /\ UNCHANGED panicked
  /\ UNCHANGED <<started, chansClosed, ctxDone, starts, hrpc, hline, lineLog,
                 stdout, requests, sends, cpc, cev, cret>>

\* handleRequests, the select and ReadString: the context is done, stdin is
\* at its end, or a line is read, trimmed and parsed
readLine(i, eof, line) ==
  /\ ~panicked
  /\ hrpc[i] = "loop"
  /\ IF ctxDone \/ eof
     THEN /\ hrpc' = [hrpc EXCEPT ![i] = "exited"]
          /\ UNCHANGED <<lineLog, hline>>
     ELSE /\ Len(lineLog) < MaxLines
          /\ lineLog' = Append(lineLog, [line |-> line, done |-> {}])
          /\ hline' = [hline EXCEPT ![i] = Len(lineLog) + 1]
          /\ hrpc' = [hrpc EXCEPT ![i] =
                        CASE line.kind = "readerr" -> "send_read_err"
                          [] line.kind = "empty" -> "loop"
                          [] line.kind = "invalid" -> "send_parse_err"
                          [] line.jsonrpc # JSONRPCVersion -> "reply_version"
                          [] OTHER -> "forward"]
  /\ UNCHANGED <<started, chansClosed, ctxDone, panicked, starts, hepc,
                 hevent, stdout, requests, errorsSeen, sends, cpc, cev, cret>>

\* handleRequests, t.errorChan <- err for a read error or a parse error
handleRequestsSendError(i) ==
  /\ ~panicked
  /\ hrpc[i] \in {"send_read_err", "send_parse_err"}
  /\ IF chansClosed
     THEN /\ panicked' = TRUE
          /\ hrpc' = [hrpc EXCEPT ![i] = "panic"]
          /\ UNCHANGED errorsSeen
     ELSE /\ errorsSeen' = errorsSeen + 1
          /\ hrpc' = [hrpc EXCEPT ![i] =
                        IF @ = "send_read_err" THEN "loop" ELSE "reply_parse"]
          /\ UNCHANGED panicked
  /\ UNCHANGED <<started, chansClosed, ctxDone, starts, hepc, hevent, hline,
                 lineLog, stdout, requests, sends, cpc, cev, cret>>

\* handleRequests, t.SendRaw(errorJSON) and continue: the reply is written
\* when the transport is started; the error SendRaw returns is dropped
SendRaw(i) ==
  /\ ~panicked
  /\ hrpc[i] \in {"reply_parse", "reply_version"}
  /\ IF started
     THEN /\ stdout' = Append(stdout,
                         IF hrpc[i] = "reply_parse"
                         THEN errorResponse(ErrorCodeParseError, "null")
                         ELSE errorResponse(ErrorCodeInvalidRequest,
                                            lineLog[hline[i]].line.id))
          /\ lineLog' = [lineLog EXCEPT ![hline[i]].done = @ \cup {"replied"}]
     ELSE UNCHANGED <<stdout, lineLog>>
  /\ hrpc' = [hrpc EXCEPT ![i] = "loop"]
  /\ UNCHANGED <<started, chansClosed, ctxDone, panicked, starts, hepc,
                 hevent, hline, requests, errorsSeen, sends, cpc, cev, cret>>

\* handleRequests, t.requestChan <- &request
forwardRequest(i) ==
  /\ ~panicked
  /\ hrpc[i] = "forward"
  /\ IF chansClosed
     THEN /\ panicked' = TRUE
          /\ hrpc' = [hrpc EXCEPT ![i] = "panic"]
          /\ UNCHANGED <<requests, lineLog>>
     ELSE /\ requests' = Append(requests, lineLog[hline[i]].line)
          /\ lineLog' = [lineLog EXCEPT ![hline[i]].done = @ \cup {"forwarded"}]
          /\ hrpc' = [hrpc EXCEPT ![i] = "loop"]
          /\ UNCHANGED panicked
  /\ UNCHANGED <<started, chansClosed, ctxDone, starts, hepc, hevent, hline,
                 stdout, errorsSeen, sends, cpc, cev, cret>>

\* NewStdioTransport
TransportAtRest ==
  /\ started = FALSE
  /\ chansClosed = FALSE
  /\ ctxDone = FALSE
  /\ panicked = FALSE
  /\ starts = 0
  /\ hepc = [i \in Instances |-> "none"]
  /\ hevent = [i \in Instances |-> ""]
  /\ hrpc = [i \in Instances |-> "none"]
  /\ hline = [i \in Instances |-> 0]
  /\ lineLog = <<>>
  /\ stdout = <<>>
  /\ requests = <<>>
  /\ errorsSeen = 0
  /\ sends = 0
  /\ cpc = [c \in Callers |-> "idle"]
  /\ cev = [c \in Callers |-> ""]
  /\ cret = [c \in Callers |-> ""]

lateVars == <<cfgVars, trVars>>

LateAtRest == ConfigAtRest /\ TransportAtRest

toolingVars == <<regVars, filterVars, initVars, csVars, lateVars>>

(***************************************************************************)
(* Part III.  Specifications.                                              *)
(***************************************************************************)

\* no registration has started, no tool has been called
RegIdle ==
  /\ rpc = "new"
  /\ di = 0
  /\ registrationErrors = 0
  /\ serverTools = {}
  /\ regRet = ""
  /\ dpc = "new"
  /\ registryTools = {}
  /\ lpc = "idle"
  /\ lret = ""

FilterIdle ==
  /\ fpc = "idle"
  /\ freq = [name |-> <<>>, dbID |-> "", hasPattern |-> FALSE, pattern |-> <<>>]
  /\ useCaseCalls = <<>>
  /\ infoCalls = 0
  /\ fret = NoFilterReply

\* InitDatabase has not been called and no connection string was asked for
SetupAtRest ==
  /\ InitIdle
  /\ dConfig = [Type |-> "mysql", Host |-> "localhost", Port |-> 0,
                User |-> "testuser", Password |-> "", Name |-> "TESTDB",
                SSLMode |-> "", ApplicationName |-> "", ServiceName |-> "",
                WalletLocation |-> "", TNSEntry |-> "", DatabasePath |-> "",
                EncryptionKey |-> ""]
  /\ ConnStringIdle
  /\ LateAtRest

ToolingAtRest ==
  /\ serverName = "db"
  /\ dbList = <<>>
  /\ RegIdle
  /\ infoTables = <<>>
  /\ tableNameKey = "table_name"
  /\ FilterIdle
  /\ SetupAtRest

\* no request goroutine has started and no transaction exists
TxInit ==
  /\ now = 0
  /\ sqlTx = <<>>
  /\ activeTransactions = EmptyMap
  /\ transactions = EmptyMap
  /\ termDone = {}
  /\ tpc = [r \in Reqs |-> "idle"]
  /\ targ = [r \in Reqs |-> NoArgs]
  /\ ttx = [r \in Reqs |-> 0]
  /\ terr = [r \in Reqs |-> FALSE]
  /\ tres = [r \in Reqs |-> NoResponse]
  /\ tlate = [r \in Reqs |-> FALSE]

\* no manager call is in flight
SchemaIdle ==
  /\ spc = "idle"
  /\ queries = <<>>
  /\ qi = 0
  /\ fallbackCalls = 0
  /\ tablesSlice = <<>>
  /\ ti = 0
  /\ fullSchema = EmptyMap
  /\ queryLog = <<>>
  /\ sret = NoSchema
  /\ component = ""
  /\ curTable = ""

SchemaAtRest ==
  /\ driverName = "mysql"
  /\ dbTables = <<>>
  /\ SchemaIdle

MgrIdle ==
  /\ mu = [writer |-> NoProc, readers |-> {}]
  /\ mpc = [p \in Procs |-> "idle"]
  /\ mid = [p \in Procs |-> NoID]
  /\ mtodo = [p \in Procs |-> {}]
  /\ mret = [p \in Procs |-> NoValue]
  /\ mattempts = [p \in Procs |-> <<>>]
  /\ mpre = [p \in Procs |-> EmptyMap]
  /\ odOverlapped = [p \in Procs |-> "none"]

\* the manager NewDBManager returns
MgrInit ==
  /\ configs = EmptyMap
  /\ connections = EmptyMap
  /\ lazyLoading = FALSE
  /\ nextHandle = 0
  /\ openPools = {}
  /\ loads = 0
  /\ MgrIdle
  /\ TxInit
  /\ SchemaAtRest
  /\ ToolingAtRest
  /\ dbInstance = FALSE

TxIdle == UNCHANGED <<odOverlapped, txVars, schemaVars, toolingVars>>

MgrNext ==
  \/ \E doc \in ConfigDocs : LoadConfig(doc) /\ TxIdle
  \/ \E p \in Admins, enabled \in BOOLEAN : SetLazyLoading(p, enabled) /\ TxIdle
  \/ \E p \in Admins : ListDatabases(p) /\ TxIdle
  \/ \E p \in Procs, id \in IDs : GetDatabaseType(p, id) /\ TxIdle
  \/ \E p \in Admins : Connect(p) /\ TxIdle
  \/ \E p \in Admins : ConnectLazyStep(p) /\ TxIdle
  \/ \E p \in Admins : ConnectEagerStep(p) /\ TxIdle
  \/ \E p \in Procs, id \in IDs : GetDatabase(p, id) /\ TxIdle
  \/ \E p \in Procs : connectOnDemand(p) /\ TxIdle
  \/ \E p \in Procs : OnDemandOpen(p) /\ TxIdle
  \/ \E p \in Admins, id \in IDs : Close(p, id) /\ TxIdle
  \/ \E p \in Admins : CloseAll(p) /\ TxIdle
  \/ \E p \in Admins : CloseAllStep(p) /\ TxIdle
  \/ \E p \in Procs : Return(p) /\ TxIdle

allVars == <<mgrVars, odOverlapped, txVars, schemaVars, toolingVars>>

SpecMgr == MgrInit /\ [][MgrNext]_allVars

(***************************************************************************)
(* Concurrent GetDatabase calls on a manager in lazy mode whose            *)
(* configuration has been loaded and that has opened nothing yet.          *)
(* odOverlapped records, for each call, the open attempts other calls     *)
(* made for its id while it was in flight.                                 *)
(***************************************************************************)
OnDemandInit ==
  /\ \E doc \in ConfigDocs : configs = StoreEntries(EmptyMap, doc)
  /\ connections = EmptyMap
  /\ lazyLoading = TRUE
  /\ nextHandle = 0
  /\ openPools = {}
  /\ loads = 1
  /\ MgrIdle
  /\ TxInit
  /\ SchemaAtRest
  /\ ToolingAtRest
  /\ dbInstance = FALSE

OnDemandNext ==
  \/ \E p \in Procs, id \in IDs :
       GetDatabase(p, id) /\ UNCHANGED <<odOverlapped, txVars, schemaVars, toolingVars>>
  \/ \E p \in Procs :
       connectOnDemand(p) /\ UNCHANGED <<odOverlapped, txVars, schemaVars, toolingVars>>
  \/ \E p \in Procs :
       /\ OnDemandOpen(p)
       /\ odOverlapped' =
            [q \in Procs |->
               IF q = p \/ q \notin InFlight(mid[p]) THEN odOverlapped[q]
               ELSE IF mid[p] \in DOMAIN connections' THEN "opened"
               ELSE IF odOverlapped[q] = "opened" THEN "opened"
               ELSE "failed"]
       /\ UNCHANGED <<txVars, schemaVars, toolingVars>>
  \/ \E p \in Procs :
       /\ Return(p)
       /\ odOverlapped' = [odOverlapped EXCEPT ![p] = "none"]
       /\ UNCHANGED <<txVars, schemaVars, toolingVars>>

SpecOnDemand == OnDemandInit /\ [][OnDemandNext]_allVars

(***************************************************************************)
(* Concurrent requests to the dbTransaction tool.                          *)
(***************************************************************************)
MgrUnused == UNCHANGED <<mgrVars, odOverlapped, schemaVars, toolingVars>>

LegacyTxInit ==
  /\ configs = EmptyMap
  /\ connections = EmptyMap
  /\ lazyLoading = FALSE
  /\ nextHandle = 0
  /\ openPools = {}
  /\ loads = 0
  /\ MgrIdle
  /\ TxInit
  /\ SchemaAtRest
  /\ ToolingAtRest
  /\ dbInstance \in BOOLEAN

LegacyTxNext ==
  \/ Tick /\ MgrUnused
  \/ \E h \in 1..MaxTx : awaitDone(h) /\ MgrUnused
  \/ \E r \in Reqs : \E args \in RequestsOf(r, LegacyRequests) : handleTransaction(r, args) /\ MgrUnused
  \/ \E r \in Reqs : \E args \in RequestsOf(r, LegacyRequests), ok \in BOOLEAN :
       (ok => Len(sqlTx) < MaxTx) /\ beginTransaction(r, args, ok) /\ MgrUnused
  \/ \E r \in Reqs : \E args \in RequestsOf(r, LegacyRequests) : lookupTransaction(r, args) /\ MgrUnused
  \/ \E r \in Reqs, ok \in BOOLEAN : terminateTransaction(r, ok) /\ MgrUnused
  \/ \E r \in Reqs : deleteTransaction(r) /\ MgrUnused
  \/ \E r \in Reqs, ok \in BOOLEAN : executeInTransaction(r, ok) /\ MgrUnused
  \/ \E r \in Reqs : Reply(r) /\ MgrUnused

SpecLegacyTx == LegacyTxInit /\ [][LegacyTxNext]_allVars

(***************************************************************************)
(* Concurrent requests to the transaction tool of database "a", one of two *)
(* configured databases, after InitDatabase with lazy loading: the manager *)
(* has connected "b" as its sample and opens "a" on demand.                *)
(***************************************************************************)
DbTxInit ==
  /\ configs = [id \in {"a", "b"} |-> "mysql"]
  /\ lazyLoading = TRUE
  /\ connections = [id \in {"b"} |-> 1]
  /\ nextHandle = 1
  /\ openPools = {1}
  /\ loads = 1
  /\ MgrIdle
  /\ TxInit
  /\ SchemaAtRest
  /\ ToolingAtRest
  /\ dbInstance = TRUE

DbTxNext ==
  \/ Tick /\ MgrUnused
  \/ \E r \in Reqs : \E args \in RequestsOf(r, ToolRequests), openOk \in BOOLEAN, ok \in BOOLEAN :
       (ok => Len(sqlTx) < MaxTx) /\ beginForDatabase(r, args, openOk, ok) /\ UNCHANGED <<odOverlapped, schemaVars, toolingVars>>
  \/ \E r \in Reqs : storeTransaction(r) /\ MgrUnused
  \/ \E r \in Reqs : storeTransactionPut(r) /\ MgrUnused
  \/ \E r \in Reqs : \E args \in RequestsOf(r, ToolRequests) : getTransaction(r, args) /\ MgrUnused
  \/ \E r \in Reqs, ok \in BOOLEAN : commitOrRollback(r, ok) /\ MgrUnused
  \/ \E r \in Reqs : removeTransaction(r) /\ MgrUnused
  \/ \E r \in Reqs, ok \in BOOLEAN : execInTransaction(r, ok) /\ MgrUnused
  \/ \E r \in Reqs : \E args \in RequestsOf(r, ToolRequests) : unknownAction(r, args) /\ MgrUnused
  \/ \E r \in Reqs : Reply(r) /\ MgrUnused

SpecDbTx == DbTxInit /\ [][DbTxNext]_allVars

\* Begins only, of both transaction tools: the legacy tool's begin and the
\* per-database tool's begin with its two-step store.  The clock may stand
\* still between two begins.
BeginRequests ==
  {args \in LegacyRequests \cup ToolRequests : args.action = "begin"}

BeginIDsInit == DbTxInit

BeginIDsNext ==
  \/ Tick /\ MgrUnused
  \/ \E r \in Reqs : \E args \in BeginRequests, ok \in BOOLEAN :
       /\ args.dbID = ""
       /\ ok => Len(sqlTx) < MaxBegins
       /\ beginTransaction(r, args, ok) /\ MgrUnused
  \/ \E r \in Reqs : \E args \in BeginRequests, openOk \in BOOLEAN, ok \in BOOLEAN :
       /\ args.dbID = ToolDB
       /\ ok => Len(sqlTx) < MaxBegins
       /\ beginForDatabase(r, args, openOk, ok) /\ UNCHANGED <<odOverlapped, schemaVars, toolingVars>>
  \/ \E r \in Reqs : storeTransaction(r) /\ MgrUnused
  \/ \E r \in Reqs : storeTransactionPut(r) /\ MgrUnused
  \/ \E r \in Reqs : Reply(r) /\ MgrUnused

SpecBeginIDs == BeginIDsInit /\ [][BeginIDsNext]_allVars

\* The query, execute and schema tools of the configured databases.
DbToolsInit == DbTxInit

DbToolsNext ==
  \/ \E r \in Reqs, dbID \in ToolDBs, openOk \in BOOLEAN, ok \in BOOLEAN, rowsOk \in BOOLEAN :
       /\ handleQueryForDatabase(r, dbID, openOk, ok, rowsOk)
       /\ UNCHANGED <<odOverlapped, schemaVars, toolingVars>>
  \/ \E r \in Reqs, dbID \in ToolDBs, openOk \in BOOLEAN, ok \in BOOLEAN :
       /\ handleExecuteForDatabase(r, dbID, openOk, ok)
       /\ UNCHANGED <<odOverlapped, schemaVars, toolingVars>>
  \/ \E r \in Reqs, dbID \in ToolDBs, openOk \in BOOLEAN, ok \in BOOLEAN :
       /\ handleSchemaForDatabase(r, dbID, openOk, ok)
       /\ UNCHANGED <<odOverlapped, schemaVars, toolingVars>>
  \/ \E r \in Reqs : Reply(r) /\ MgrUnused

SpecDbTools == DbToolsInit /\ [][DbToolsNext]_allVars

\* One schema request to a manager without lazy loading that has connected
\* its one database "a", of any dialect and with any tables.
SchemaInit ==
  /\ driverName \in DriverNames
  /\ configs = [id \in {"a"} |-> IF driverName = "sqlite3" THEN "sqlite" ELSE driverName]
  /\ connections = [id \in {"a"} |-> 1]
  /\ lazyLoading = FALSE
  /\ nextHandle = 1
  /\ openPools = {1}
  /\ loads = 1
  /\ MgrIdle
  /\ TxInit
  /\ dbInstance = TRUE
  /\ dbTables \in SeqsUpTo(TableNames, MaxTables)
  /\ SchemaIdle
  /\ ToolingAtRest

SchemaOnly == UNCHANGED <<mgrVars, odOverlapped, txVars, toolingVars>>

SchemaNext ==
  \/ \E params \in SchemaRequests : handleSchemaExplorer(params) /\ SchemaOnly
  \/ \E ok \in BOOLEAN, rowsOk \in BOOLEAN : getTables(ok, rowsOk) /\ SchemaOnly
  \/ \E ok \in BOOLEAN, rowsOk \in BOOLEAN : getColumns(ok, rowsOk) /\ SchemaOnly
  \/ \E ok \in BOOLEAN, rowsOk \in BOOLEAN : getRelationships(ok, rowsOk) /\ SchemaOnly

SpecSchema == SchemaInit /\ [][SchemaNext]_allVars

\* Registration with a manager that has loaded the databases of dbList, in
\* lazy mode and with no pool open; both registries are still empty.
RegistryInit ==
  /\ dbList \in {s \in SeqsUpTo({"a", "b"}, MaxDBs) :
                    \A i, j \in 1..Len(s) : i # j => s[i] # s[j]}
  /\ serverName \in {"db", "pg"}
  /\ configs = [id \in Range(dbList) |-> "mysql"]
  /\ connections = EmptyMap
  /\ lazyLoading = TRUE
  /\ nextHandle = 0
  /\ openPools = {}
  /\ loads = 1
  /\ MgrIdle
  /\ TxInit
  /\ SchemaAtRest
  /\ dbInstance = FALSE
  /\ RegIdle
  /\ infoTables = <<>>
  /\ tableNameKey = "table_name"
  /\ FilterIdle
  /\ SetupAtRest

ToolingOnly ==
  UNCHANGED <<mgrVars, odOverlapped, txVars, schemaVars, initVars, csVars,
              lateVars>>

\* the sets of tool types whose AddTool fails in one registration call
FailSets(types) == {F \in SUBSET types : Cardinality(F) <= MaxAddFailures}

RegistryNext ==
  \/ RegisterAllTools /\ UNCHANGED filterVars /\ ToolingOnly
  \/ \E infoOk \in BOOLEAN, failed \in FailSets(Range(toolTypeNames)) :
       registerDatabaseTools(infoOk, failed) /\ UNCHANGED filterVars /\ ToolingOnly
  \/ \E addOk \in BOOLEAN :
       registerCommonTools(addOk) /\ UNCHANGED filterVars /\ ToolingOnly
  \/ \E failed \in FailSets(factoryToolTypes) :
       RegisterMockTools(failed) /\ UNCHANGED filterVars /\ ToolingOnly
  \/ RegisterMCPDatabaseTools /\ UNCHANGED filterVars /\ ToolingOnly
  \/ list_databases /\ UNCHANGED filterVars /\ ToolingOnly
  \/ \E t \in serverTools, hasPattern \in BOOLEAN,
        pattern \in {<<119, 112, 95>>, <<>>},
        infoOk \in BOOLEAN, tablesOk \in BOOLEAN :
       /\ rpc = "done"
       /\ t.toolType = "filter_table_names"
       /\ HandleRequest([name |-> <<t.name>>, dbID |-> t.dbID,
                         hasPattern |-> hasPattern, pattern |-> pattern],
                        t.dbID, infoOk, tablesOk)
       /\ UNCHANGED regVars
       /\ ToolingOnly

SpecRegistry == RegistryInit /\ [][RegistryNext]_allVars

\* One request to a filter_table_names tool over a database whose listing
\* names any of the tables, each once, under either spelling of the key.
FilterInit ==
  /\ configs = [id \in {"mydb", "testdb"} |-> "mysql"]
  /\ connections = EmptyMap
  /\ lazyLoading = TRUE
  /\ nextHandle = 0
  /\ openPools = {}
  /\ loads = 1
  /\ MgrIdle
  /\ TxInit
  /\ SchemaAtRest
  /\ dbInstance = FALSE
  /\ serverName = "db"
  /\ dbList = <<>>
  /\ RegIdle
  /\ infoTables \in {s \in SeqsUpTo(FilterTables, MaxFilterTables) :
                        \A i, j \in 1..Len(s) : i # j => s[i] # s[j]}
  /\ tableNameKey \in {"table_name", "TABLE_NAME"}
  /\ FilterIdle
  /\ SetupAtRest

FilterNext ==
  \E request \in FilterRequests, infoOk \in BOOLEAN, tablesOk \in BOOLEAN :
    /\ HandleRequest(request, request.dbID, infoOk, tablesOk)
    /\ UNCHANGED regVars
    /\ ToolingOnly

SpecFilter == FilterInit /\ [][FilterNext]_allVars

\* One InitDatabase call on a new manager, with any configuration file,
\* inline connections and environment.
InitDbInit ==
  /\ MgrInit

InitDbOnly ==
  UNCHANGED <<odOverlapped, txVars, schemaVars, regVars, filterVars, csVars,
              lateVars>>

InitDbNext ==
  \/ \E in \in InitInputs : InitDatabase(in) /\ InitDbOnly
  \/ InitLoadConfig /\ InitDbOnly
  \/ InitSetLazyLoading /\ InitDbOnly
  \/ InitConnect /\ InitDbOnly
  \/ ipc = "connecting" /\ ConnectLazyStep("g1") /\ UNCHANGED initVars /\ InitDbOnly
  \/ ipc = "connecting" /\ ConnectEagerStep("g1") /\ UNCHANGED initVars /\ InitDbOnly
  \/ InitReturn /\ InitDbOnly

SpecInitDb == InitDbInit /\ [][InitDbNext]_allVars

\* One ConnectionString call on a database of any configuration.
ConnStringInit ==
  /\ configs = EmptyMap
  /\ connections = EmptyMap
  /\ lazyLoading = FALSE
  /\ nextHandle = 0
  /\ openPools = {}
  /\ loads = 0
  /\ MgrIdle
  /\ TxInit
  /\ SchemaAtRest
  /\ dbInstance = FALSE
  /\ serverName = "db"
  /\ dbList = <<>>
  /\ RegIdle
  /\ infoTables = <<>>
  /\ tableNameKey = "table_name"
  /\ FilterIdle
  /\ InitIdle
  /\ dConfig \in DatabaseConfigs
  /\ ConnStringIdle
  /\ LateAtRest

ConnStringNext ==
  /\ CallConnectionString
  /\ UNCHANGED <<mgrVars, odOverlapped, txVars, schemaVars, regVars,
                 filterVars, initVars, lateVars>>

SpecConnString == ConnStringInit /\ [][ConnStringNext]_allVars

\* The configuration functions of pkg/db, each called on every
\* configuration of Configurations.
ConfigInit ==
  /\ configs = EmptyMap
  /\ connections = EmptyMap
  /\ lazyLoading = FALSE
  /\ nextHandle = 0
  /\ openPools = {}
  /\ loads = 0
  /\ MgrIdle
  /\ TxInit
  /\ SchemaAtRest
  /\ dbInstance = FALSE
  /\ serverName = "db"
  /\ dbList = <<>>
  /\ RegIdle
  /\ infoTables = <<>>
  /\ tableNameKey = "table_name"
  /\ FilterIdle
  /\ InitIdle
  /\ dConfig = [Type |-> "mysql", Host |-> "localhost", Port |-> 0,
                User |-> "testuser", Password |-> "", Name |-> "TESTDB",
                SSLMode |-> "", ApplicationName |-> "", ServiceName |-> "",
                WalletLocation |-> "", TNSEntry |-> "", DatabasePath |-> "",
                EncryptionKey |-> ""]
  /\ ConnStringIdle
  /\ connCfg \in Configurations
  /\ cfgpc = "idle"
  /\ cfgRes = ""
  /\ TransportAtRest

ConfigOnly ==
  UNCHANGED <<mgrVars, odOverlapped, txVars, schemaVars, regVars, filterVars,
              initVars, csVars, trVars>>

ConfigNext ==
  \/ CallSetDefaults /\ ConfigOnly
  \/ CallBuildOracleConnStr /\ ConfigOnly
  \/ CallNewDatabase /\ ConfigOnly
  \/ ConfigReturn /\ ConfigOnly

SpecConfig == ConfigInit /\ [][ConfigNext]_allVars

\* The stdio transport with its callers, its two goroutines, the context
\* and the receiver of its channels.
StdioInit == MgrInit

StdioOnly ==
  UNCHANGED <<mgrVars, odOverlapped, txVars, schemaVars, regVars, filterVars,
              initVars, csVars, cfgVars>>

ReaderStep ==
  \E i \in Instances :
    (handleRequestsSendError(i) \/ SendRaw(i) \/ forwardRequest(i)) /\ StdioOnly

StdioNext ==
  \/ \E c \in Callers : Start(c) /\ StdioOnly
  \/ \E c \in Callers : Stop(c) /\ StdioOnly
  \/ \E c \in Callers, event \in Events : Send(c, event) /\ StdioOnly
  \/ \E c \in Callers : SendOnEventChan(c) /\ StdioOnly
  \/ \E c \in Callers : TransportReturn(c) /\ StdioOnly
  \/ CancelContext /\ StdioOnly
  \/ \E i \in Instances : handleEventsExit(i) /\ StdioOnly
  \/ \E i \in Instances : writeEvent(i) /\ StdioOnly
  \/ \E i \in Instances : handleEventsSendError(i) /\ StdioOnly
  \/ \E i \in Instances, eof \in BOOLEAN, line \in Lines :
       readLine(i, eof, line) /\ StdioOnly
  \/ \E i \in Instances : handleRequestsSendError(i) /\ StdioOnly
  \/ \E i \in Instances : SendRaw(i) /\ StdioOnly
  \/ \E i \in Instances : forwardRequest(i) /\ StdioOnly

SpecStdio == StdioInit /\ [][StdioNext]_allVars

\* The reader goroutine is scheduled, and the receiver of the request and
\* error channels takes what is offered to it.
SpecStdioFair == SpecStdio /\ WF_allVars(ReaderStep)

(***************************************************************************)
(* Part IV.  Properties.                                                   *)
(***************************************************************************)

\* the response of a lookup that did not find the transaction
NotFound(res) ==
  res.isError /\ res.text \in {"transaction not found",
                               "Error: Failed to get transaction: not found"}

\* C1 (as stated; SpecDbTx): once a commit or rollback request for a
\* transaction ID has been processed, whether the driver call succeeded or
\* failed, every later commit, rollback or execute for that ID fails with
\* transaction-not-found.
TerminatedMeansNotFound ==
  \A r \in Reqs :
    (tpc[r] = "done" /\ tlate[r]
       /\ targ[r].action \in {"commit", "rollback", "execute"})
      => NotFound(tres[r])

\* C2 (as stated; SpecOnDemand): in lazy mode, of the GetDatabase(id) calls
\* that overlap for a configured id without a handle exactly one makes an
\* open attempt, and every caller returns the same handle.
OneAttemptPerOverlap ==
  \A p \in Procs :
    /\ odOverlapped[p] # "none" => mattempts[p] = <<>>
    /\ (mpc[p] \in {"get_ret", "demand_ret"} /\ mid[p] \in DOMAIN configs)
         => mret[p].kind = "handle"

\* C2 (amended; SpecOnDemand): in lazy mode, while no Connect, Close or
\* CloseAll runs, at most one open attempt succeeds per id: a call that
\* overlapped a successful attempt for its id makes none, a call makes at most
\* one attempt, no handle is ever replaced, and every caller that returns a
\* handle returns the handle installed for the id.  (A call that overlapped
\* only failed attempts does make its own.)
OnDemandOpensOnce ==
  /\ nextHandle = Cardinality(DOMAIN connections)
  /\ \A p \in Procs :
       /\ odOverlapped[p] = "opened" => mattempts[p] = <<>>
       /\ Len(mattempts[p]) <= 1
       /\ (mpc[p] \in {"get_ret", "demand_ret"} /\ mret[p].kind = "handle")
            => /\ mid[p] \in DOMAIN connections
               /\ mret[p].handle = connections[mid[p]]

\* two calls overlapped, one opened the pool, the other returns its handle
\* without an attempt of its own
OnDemandSharedHandle ==
  \E p \in Procs :
    /\ mpc[p] = "demand_ret"
    /\ odOverlapped[p] = "opened"
    /\ mret[p].kind = "handle"
    /\ mattempts[p] = <<>>

\* C3 (as stated; SpecLegacyTx): at most one in-flight request reaches a
\* transaction record at a time, and a transaction receives at most one
\* Commit or Rollback call: the other terminator sees not-found.
OneRequestPerTransaction ==
  /\ \A r, q \in Reqs :
       (r # q /\ tpc[r] \in {"terminate", "remove", "execute"}
              /\ tpc[q] \in {"terminate", "remove", "execute"})
         => ttx[r] # ttx[q]
  /\ \A h \in DOMAIN sqlTx : sqlTx[h].calls # "many"

\* C4 (as stated; SpecDbTx): a commit or rollback whose driver call returned
\* an error has removed the registry entry all the same.
FailedTerminatorRemovesEntry ==
  \A r \in Reqs :
    (tpc[r] = "done" /\ targ[r].action \in {"commit", "rollback"} /\ terr[r])
      => targ[r].txID \notin DOMAIN transactions

\* C5 (as stated; SpecLegacyTx): a transaction that begin registered is still
\* open as long as no commit or rollback was called on it: the end of the
\* begin request does not roll it back.
RegisteredTransactionStaysOpen ==
  \A id \in DOMAIN activeTransactions :
    sqlTx[activeTransactions[id]].calls = "none"
      => sqlTx[activeTransactions[id]].state = "open"

\* C6 (SpecMgr): ListDatabases returns exactly the ids LoadConfig stored, and
\* no other operation (SetLazyLoading, Connect, GetDatabase, GetDatabaseType,
\* Close, CloseAll) changes that set.
ListDatabasesIsConfigured ==
  /\ [](\A p \in Procs :
          mpc[p] = "list_ret" => mret[p] = ListValue(DOMAIN configs))
  /\ [][loads' = loads => configs' = configs]_allVars
  /\ [][loads' # loads =>
          \E doc \in ConfigDocs : configs' = StoreEntries(configs, doc)]_allVars

\* ListDatabases answers on a lazy manager that has opened a pool and has a
\* configured id without a connection
ListDatabasesAnswered ==
  /\ mpc["g1"] = "list_ret"
  /\ lazyLoading
  /\ nextHandle > 0
  /\ DOMAIN configs \ DOMAIN connections # {}

\* C7 (SpecMgr): GetDatabaseType(id) returns the configured dialect of id, or
\* an error for an id that is not configured, whether the manager is lazy or
\* eager and whether id is connected or not, and opens no pool.
GetDatabaseTypeReadsConfig ==
  /\ [](\A p \in Procs :
          mpc[p] = "type_ret" =>
            mret[p] = IF mid[p] \in DOMAIN configs
                      THEN TypeValue(configs[mid[p]])
                      ELSE ErrValue("config not found", mid[p]))
  /\ [][\A p \in Procs :
          (mpc[p] = "idle" /\ mpc'[p] = "type_ret") =>
            /\ connections' = connections
            /\ nextHandle' = nextHandle
            /\ openPools' = openPools]_allVars

\* GetDatabaseType answers for a configured id that a lazy manager has not
\* connected
TypeOfUnconnectedAnswered ==
  \E p \in Procs :
    /\ mpc[p] = "type_ret"
    /\ lazyLoading
    /\ mid[p] \in DOMAIN configs \ DOMAIN connections
    /\ mret[p].kind = "type"

EagerConnectStopsAtFirstFailure ==
  \A p \in Procs :
    (mpc[p] = "connect_ret" /\ ~lazyLoading /\ mret[p].kind = "error")
      => LET n == Len(mattempts[p])
         IN /\ n >= 1
            /\ ~mattempts[p][n].ok
            /\ mret[p] = ErrValue("connect failed", mattempts[p][n].id)
            /\ \A i \in 1..(n - 1) :
                 /\ mattempts[p][i].ok
                 /\ mattempts[p][i].id \in DOMAIN connections
            /\ \A id \in DOMAIN mpre[p] :
                 id \in DOMAIN connections /\ connections[id] = mpre[p][id]
            /\ mattempts[p][n].id \notin DOMAIN connections

\* an eager Connect fails after it installed a handle
EagerConnectFailedSecond ==
  \E p \in Procs :
    /\ mpc[p] = "connect_ret"
    /\ ~lazyLoading
    /\ mret[p].kind = "error"
    /\ Len(mattempts[p]) = 2

\* C10 (SpecOnDemand): an on-demand open that fails returns the error,
\* installs no handle and is not retried within the call; the failure is not
\* remembered: a call returns without an open attempt only with the handle
\* of a connected id or for an id that is not configured, so every other call
\* attempts the open again.
FailedOpenIsNotRemembered ==
  \A p \in Procs :
    /\ (mpc[p] = "demand_ret" /\ mret[p].kind = "error" /\ mattempts[p] # <<>>)
         => /\ Len(mattempts[p]) = 1
            /\ mret[p] = ErrValue("connect failed", mid[p])
            /\ connections = mpre[p]
            /\ mid[p] \notin DOMAIN connections
    /\ (mpc[p] = "demand_ret" /\ mattempts[p] = <<>>)
         => \/ /\ mid[p] \in DOMAIN connections
               /\ mret[p] = HandleValue(connections[mid[p]])
            \/ /\ mid[p] \notin DOMAIN configs
               /\ mret[p] = ErrValue("config not found", mid[p])

\* a call whose id another call just failed to open has made its own
\* attempt, which failed as well
FailedOpenAttemptedAgain ==
  \E p \in Procs :
    /\ mpc[p] = "demand_ret"
    /\ odOverlapped[p] = "failed"
    /\ mattempts[p] # <<>>
    /\ mret[p].kind = "error"

\* C11 (as stated; SpecMgr): after Close(id) on a connected id, id is no
\* longer connected and its pool is closed; Close(id) on an id that is not
\* connected returns an error and changes nothing.
CloseRemovesEntry ==
  \A p \in Procs :
    mpc[p] = "close_ret" =>
      IF mid[p] \in DOMAIN mpre[p]
      THEN /\ mid[p] \notin DOMAIN connections
           /\ mpre[p][mid[p]] \notin openPools
      ELSE /\ mret[p] = ErrValue("connection not found", mid[p])
           /\ connections = mpre[p]

\* C12 (SpecMgr): CloseAll closes the pool of every connected database, also
\* after a close that failed, returns the error of the first failed close
\* (nil when none failed), leaves no database connected and leaves the
\* configured databases as they were.
CloseAllClosesEverything ==
  /\ [](\A p \in Procs :
          mpc[p] = "closeall_ret" =>
            /\ connections = EmptyMap
            /\ mtodo[p] = {}
            /\ \A id \in DOMAIN mpre[p] : mpre[p][id] \notin openPools
            /\ mret[p] = IF mattempts[p] = <<>> THEN OkValue
                         ELSE ErrValue("close failed", mattempts[p][1].id))
  /\ [][(\E p \in Procs :
           \/ mpc[p] = "closeall"
           \/ mpc'[p] = "closeall"
           \/ mpc[p] = "idle" /\ mpc'[p] = "closeall_ret")
          => configs' = configs]_allVars

\* CloseAll returns after two of its closes failed
CloseAllWentOnAfterFailure ==
  \E p \in Procs :
    /\ mpc[p] = "closeall_ret"
    /\ Len(mattempts[p]) = 2
    /\ configs # EmptyMap

\* C13 (as stated; SpecMgr): no driver call (open, ping or close of a pool)
\* is made while the manager's mutex is held: whenever a goroutine is about
\* to open or close a pool in Connect, connectOnDemand or CloseAll, the lock
\* is free, so that a GetDatabaseType or GetDatabase of another goroutine can
\* proceed.
NoDriverCallUnderLock ==
  \A p \in Procs :
    mpc[p] \in {"connect_lazy", "connect_eager", "demand_open", "closeall"}
      => mu.writer = NoProc

\* C14 (SpecDbTx): with the database initialised, a commit, rollback or
\* execute that carries its parameters and whose transaction ID is in no
\* registry ends at once with a
\* transaction-not-found error, without a driver call and leaving the
\* registries as they were; and no request that answers not-found has got
\* hold of a transaction.
UnknownTransactionIsNotFound ==
  /\ [](\A r \in Reqs :
          (tpc[r] = "done" /\ NotFound(tres[r])) => (ttx[r] = 0 /\ ~terr[r]))
  /\ [][\A r \in Reqs :
          (/\ tpc[r] = "idle" /\ tpc'[r] # "idle"
           /\ dbInstance
           /\ targ'[r].action \in {"commit", "rollback", "execute"}
           /\ targ'[r].hasTxID
           /\ targ'[r].action = "execute" => targ'[r].hasStatement
           /\ targ'[r].txID \notin DOMAIN transactions
           /\ targ'[r].txID \notin DOMAIN activeTransactions)
          => /\ tpc'[r] = "done"
             /\ NotFound(tres'[r])
             /\ sqlTx' = sqlTx
             /\ transactions' = transactions
             /\ activeTransactions' = activeTransactions]_allVars

\* a request for an ID whose commit or rollback went through is answered
\* with not-found
TerminatedTransactionNotFound ==
  \E r \in Reqs : tpc[r] = "done" /\ NotFound(tres[r]) /\ tlate[r]

\* C15 (SpecLegacyTx): a begin that is answered with an error straight from
\* its driver call leaves the registry and the driver's transactions as they
\* were, and an execute that ends in an error leaves the registry as it was,
\* so the entry it ran in is still there for a later rollback.
FailedBeginAndExecuteKeepRegistry ==
  [][\A r \in Reqs :
       /\ (/\ tpc[r] = "idle" /\ tpc'[r] = "done"
           /\ targ'[r].action = "begin"
           /\ tres'[r].isError)
          => /\ activeTransactions' = activeTransactions
             /\ transactions' = transactions
             /\ sqlTx' = sqlTx
       /\ (/\ tpc[r] \in {"execute", "exec"} /\ tpc'[r] = "done"
           /\ tres'[r].isError)
          => /\ activeTransactions' = activeTransactions
             /\ transactions' = transactions]_allVars

\* An execute has ended in an error and the transaction it ran in is still
\* registered under the requested ID.
FailedExecuteStillRegistered ==
  \E r \in Reqs :
    /\ tpc[r] = "done"
    /\ targ[r].action = "execute"
    /\ tres[r].isError
    /\ ttx[r] # 0
    /\ targ[r].txID \in DOMAIN activeTransactions
    /\ activeTransactions[targ[r].txID] = ttx[r]

\* C16 (as stated; SpecBeginIDs): no step replaces the record stored under an
\* ID that is in a registry before and after the step, so no begin hands out
\* an ID while an earlier begin's record is still stored under it.
BeginNeverReplacesRecord ==
  [][/\ \A id \in DOMAIN activeTransactions \cap DOMAIN activeTransactions' :
          activeTransactions'[id] = activeTransactions[id]
     /\ \A id \in DOMAIN transactions \cap DOMAIN transactions' :
          transactions'[id] = transactions[id]]_allVars

\* The upper-case form of a letter of the statements used here.
UpperCase(ch) ==
  CASE ch = "s" -> "S" [] ch = "e" -> "E" [] ch = "l" -> "L"
    [] ch = "c" -> "C" [] ch = "t" -> "T" [] OTHER -> ch

LeadsWithSelect(statement) ==
  /\ Len(statement) >= 6
  /\ [i \in 1..6 |-> UpperCase(statement[i])] = <<"S", "E", "L", "E", "C", "T">>

\* C17 (as stated; SpecLegacyTx): an execute that reached the driver went down
\* the query path exactly when its statement's leading keyword is SELECT in
\* any letter case, and down the execute path otherwise.
SelectInAnyCaseIsQuery ==
  \A r \in Reqs :
    (/\ tpc[r] = "done"
     /\ targ[r].action = "execute"
     /\ ttx[r] # 0)
    => (tres[r].text \in {"query", "failed to execute query in transaction"}
          <=> LeadsWithSelect(targ[r].statement))

\* A request that lacks a parameter its action needs, or names no known action.
LacksParameter(args) ==
  \/ args.action \notin {"begin", "commit", "rollback", "execute"}
  \/ args.action \in {"commit", "rollback", "execute"} /\ ~args.hasTxID
  \/ args.action = "execute" /\ ~args.hasStatement

\* C18 (SpecDbTx): a request with an unknown action, a commit, rollback or
\* execute without transactionId, or an execute without statement is answered
\* with an error in the step that takes it up, and that step changes no
\* registry, no driver transaction and no database handle; a begin is never
\* answered with a missing-parameter error.
MissingParameterIsRejected ==
  /\ [][\A r \in Reqs :
          (tpc[r] = "idle" /\ tpc'[r] # "idle" /\ LacksParameter(targ'[r]))
          => /\ tpc'[r] = "done"
             /\ tres'[r].isError
             /\ sqlTx' = sqlTx
             /\ transactions' = transactions
             /\ activeTransactions' = activeTransactions
             /\ connections' = connections
             /\ openPools' = openPools]_allVars
  /\ [](\A r \in Reqs :
          (tpc[r] = "done" /\ targ[r].action = "begin" /\ tres[r].isError)
          => tres[r].text \in {"Error: Failed to get database",
                               "Error: Failed to begin transaction",
                               "Error: Failed to store transaction",
                               "failed to begin transaction",
                               "database not initialized"})

\* An execute that names a registered transaction but carries no statement
\* has been answered with an error.
ExecuteWithoutStatementRejected ==
  \E r \in Reqs :
    /\ tpc[r] = "done"
    /\ targ[r].action = "execute"
    /\ targ[r].hasTxID /\ ~targ[r].hasStatement
    /\ targ[r].txID \in DOMAIN transactions
    /\ tres[r].isError

\* The candidate list of the executeWithFallbacks call a driver call belongs to.
CandidatesOf(e) ==
  CASE e.operationName = "getTables" ->
         GetTablesQueries(NewDatabaseStrategy(driverName))
    [] e.operationName = "getColumns" ->
         GetColumnsQueries(NewDatabaseStrategy(driverName), e.table)
    [] OTHER ->
         GetRelationshipsQueries(NewDatabaseStrategy(driverName), e.table)

Succeeded(e) == e.ok

\* C19 (SpecSchema): within one executeWithFallbacks call the driver sees the
\* candidates in list order starting with the first; a candidate other than
\* the first is run only directly after its predecessor returned a driver
\* error, so nothing is run after a success; and the rows a call hands back
\* are those of the candidate that succeeded, also when they are no rows.
FallbacksRunInOrder ==
  /\ \A k \in 1..Len(queryLog) :
       LET e == queryLog[k]
       IN /\ e.n \in 1..Len(CandidatesOf(e))
          /\ e.q = CandidatesOf(e)[e.n]
          /\ IF k = 1 \/ queryLog[k - 1].call # e.call
             THEN /\ e.n = 1
                  /\ \A j \in 1..(k - 1) : queryLog[j].call # e.call
             ELSE /\ queryLog[k - 1].n = e.n - 1
                  /\ ~queryLog[k - 1].ok
  /\ (component = "full" /\ spc \in {"getColumns", "getRelationships"})
       => \E k \in 1..Len(queryLog) :
            /\ queryLog[k].ok
            /\ queryLog[k].operationName = "getTables"
            /\ tablesSlice = rowsToMaps(queryLog[k].q)
  /\ \A t \in DOMAIN fullSchema :
       \E k \in 1..Len(queryLog) :
         /\ queryLog[k].ok
         /\ queryLog[k].operationName = "getColumns"
         /\ queryLog[k].table = t
         /\ fullSchema[t].columns = queryLog[k].q
  /\ ~sret.isNil
       => LET last == queryLog[Len(queryLog)]
          IN /\ last.ok
             /\ component \in {"full", "relationships"} => sret.relationships = last.q
             /\ component = "tables" => sret.tables = rowsToMaps(last.q)
             /\ component = "columns" => sret.schema[curTable].columns = last.q

\* A fallback candidate of the table listing succeeded with an empty result
\* set after its predecessor failed, and the call went on to the
\* relationships without running the listing's remaining candidate.
EmptyListingFromFallback ==
  /\ dbTables = <<>>
  /\ component = "full"
  /\ spc = "getRelationships"
  /\ Len(queryLog) = 2
  /\ queryLog[2].operationName = "getTables"
  /\ queryLog[2].ok
  /\ queryLog[2].n = 2
  /\ Len(CandidatesOf(queryLog[2])) = 3

\* C20 (SpecSchema): when getFullSchema has returned without error, every
\* executeWithFallbacks call it made ended in a success, and the successes
\* are, in this order, the table listing, the columns of each listed row and
\* one relationships query without table; the result carries the listing and
\* a schema entry for exactly the listed names.  When it has returned an
\* error, the result is nil.
FullSchemaIsAssembled ==
  (spc = "done" /\ component = "full") =>
    IF sret.err = ""
    THEN LET done == SelectSeq(queryLog, Succeeded)
             listed == sret.tables
         IN /\ ~sret.isNil
            /\ \A k \in 1..Len(queryLog) :
                 ~queryLog[k].ok
                 => k < Len(queryLog) /\ queryLog[k + 1].call = queryLog[k].call
            /\ Len(done) = Len(listed) + 2
            /\ done[1].operationName = "getTables"
            /\ listed = rowsToMaps(done[1].q)
            /\ \A i \in 1..Len(listed) :
                 /\ done[i + 1].operationName = "getColumns"
                 /\ done[i + 1].table = listed[i]["table_name"]
            /\ done[Len(done)].operationName = "getRelationships"
            /\ done[Len(done)].table = ""
            /\ done[Len(done)].q.Args = <<>>
            /\ DOMAIN sret.schema = {listed[i]["table_name"] : i \in 1..Len(listed)}
    ELSE sret = SchemaError(sret.err)

\* A full schema of two listed tables has been returned after at least one
\* candidate had failed on the way.
FullSchemaOfTwoTables ==
  /\ spc = "done"
  /\ ~sret.isNil
  /\ Len(sret.tables) = 2
  /\ DOMAIN sret.schema = {"t1", "t2"}
  /\ \E k \in 1..Len(queryLog) : ~queryLog[k].ok

\* C21 (SpecSchema): a schema request for the columns component whose table
\* is missing or empty, and a request for a component other than tables,
\* columns, relationships and full, has returned an error and nil, and the
\* driver has seen no query.
BadSchemaRequestRunsNoQuery ==
  (/\ spc = "done"
   /\ \/ component = "columns" /\ curTable = ""
      \/ component \notin {"tables", "columns", "relationships", "full"})
  => /\ sret.err # ""
     /\ sret.isNil
     /\ queryLog = <<>>
     /\ fallbackCalls = 0

\* A columns request for the connected database without a table has been
\* rejected for its missing table.
ColumnsWithoutTableRejected ==
  /\ spc = "done"
  /\ component = "columns"
  /\ curTable = ""
  /\ sret.err = "table parameter is required for columns component"

\* C22 (as stated; SpecDbTools): whenever the driver call of a query, execute
\* or schema tool failed, the handler's reply is an envelope with isError.
DriverErrorIsErrorEnvelope ==
  \A r \in Reqs :
    (tpc[r] = "done" /\ terr[r]) => tres[r].isError

\* C23 (as stated; SpecRegistry): after RegisterAllTools has returned without
\* error for a non-empty database list, the server holds a tool named
\* mcp_<serverName>_<toolKind>_<dbID> for every listed database and every
\* tool kind among query, execute, transaction, performance, schema and
\* filter_table_names, and exactly one tool without a database, named
\* mcp_<serverName>_list_databases.
EveryKindRegisteredPerDatabase ==
  (rpc = "done" /\ Len(dbList) > 0 /\ regRet = "nil")
  => /\ \A i \in 1..Len(dbList) :
          \A toolKind \in {"query", "execute", "transaction", "performance",
                           "schema", "filter_table_names"} :
            \E t \in serverTools :
              t.name = "mcp_" \o serverName \o "_" \o toolKind \o "_" \o dbList[i]
     /\ {t.name : t \in {u \in serverTools : u.dbID = ""}}
          = {"mcp_" \o serverName \o "_list_databases"}

\* C24 (as stated; SpecRegistry): with no database configured, each registry
\* holds after its registration one mock tool for each tool kind and no tool
\* of a database, and a call of a mock tool reaches neither the use case nor
\* GetDatabaseInfo.
MockToolsAreStubs ==
  Len(dbList) = 0
  => /\ rpc = "done"
          => /\ \A toolKind \in factoryToolTypes :
                  \E t \in serverTools :
                    t.name = "mcp_" \o serverName \o "_mock_" \o toolKind
             /\ \A t \in serverTools : t.dbID = "mock"
     /\ dpc = "done"
          => /\ \A toolKind \in Range(toolTypeNames) :
                  \E t \in registryTools : t.name = toolKind \o "_mock"
             /\ \A t \in registryTools : t.dbID \in {"mock", ""}
     /\ useCaseCalls = <<>>
     /\ infoCalls = 0

\* the numbered lines "k. <id>\n" of the list dbs, k from 1 to Len(dbs)
RECURSIVE NumberedLines(_)
NumberedLines(dbs) ==
  IF dbs = <<>>
    THEN ""
    ELSE NumberedLines(SubSeq(dbs, 1, Len(dbs) - 1))
           \o Itoa(Len(dbs)) \o ". " \o dbs[Len(dbs)] \o "\n"

\* C25 (as stated; SpecRegistry): the text a call of list_databases returned
\* is "Available databases:\n\n" followed by one numbered line per configured
\* database, and by "No databases configured.\n" when none is configured.
ListDatabasesText ==
  lpc = "done"
  => lret = "Available databases:\n\n"
              \o (IF Len(dbList) = 0 THEN "No databases configured.\n"
                                     ELSE NumberedLines(dbList))

\* the connections of a source whose document was read and parsed without
\* error
Parsed(src) == IF src.state = "ok" THEN src.connections ELSE <<>>

\* C26 (as stated; SpecInitDb): when neither the configuration file, the
\* inline connections, DB_CONFIG nor the DB_* variables give a connection,
\* InitDatabase returns the error "no database configuration provided" and
\* no pool has been opened; otherwise a source that is missing, unreadable
\* or unparsable is passed over: the call does not fail for want of a
\* configuration, and the list it goes on with is the list of a source that
\* was read and parsed, or the single connection "default" of the DB_*
\* variables.
UnusableSourceIsSkipped ==
  ipc # "new"
  => LET usable == {Parsed(initCfg.file), initCfg.inline,
                    Parsed(initCfg.dbConfig)} \ {<<>>}
         legacy == initCfg.dbHost # "" /\ initCfg.dbUser # ""
     IN  IF usable = {} /\ ~legacy
           THEN /\ ipc = "done"
                /\ iret = "no database configuration provided"
                /\ openPools = {}
                /\ connections = EmptyMap
           ELSE /\ iret # "no database configuration provided"
                /\ \/ multiDBConfig.connections \in usable
                   \/ /\ legacy
                      /\ Len(multiDBConfig.connections) = 1
                      /\ multiDBConfig.connections[1].id = "default"

\* what the sources leave in multiDBConfig, in the order InitDatabase asks
\* them: the configuration file, the inline connections, DB_CONFIG, the DB_*
\* variables
Yields(in) ==
  <<IF in.file.state \in {"none", "unreadable"}
      THEN <<>> ELSE Unmarshal(in.file).connections,
    in.inline,
    IF in.dbConfig.state = "unset"
      THEN <<>> ELSE Unmarshal(in.dbConfig).connections,
    IF in.dbHost # "" /\ in.dbUser # ""
      THEN <<[id |-> "default",
              type |-> IF in.dbType = "" THEN "mysql" ELSE in.dbType,
              path |-> ""]>>
      ELSE <<>>>>

FilterIsCaseInsensitiveAndSorted ==
  (fpc = "done" /\ fret.err = "")
  => /\ Range(fret.lines) =
          {t \in Range(infoTables) :
             Contains(ToLower(t), ToLower(freq.pattern))}
     /\ \A i, j \in 1..Len(fret.lines) :
          i < j => stringLess(fret.lines[i], fret.lines[j])
     /\ (Range(infoTables) = FilterTables /\ freq.pattern = <<87, 80, 95>>)
          => fret.lines = <<<<87, 80, 95, 79, 112, 116, 105, 111, 110, 115>>,
                            <<119, 112, 95, 112, 111, 115, 116, 115>>,
                            <<119, 112, 95, 117, 115, 101, 114, 115>>>>

\* The pattern "WP_" over a listing that names wp_users first and WP_Options
\* last has given WP_Options, wp_posts, wp_users.
UpperCasePatternFindsThree ==
  /\ fpc = "done"
  /\ freq.pattern = <<87, 80, 95>>
  /\ Len(infoTables) = 4
  /\ infoTables[1] = <<119, 112, 95, 117, 115, 101, 114, 115>>
  /\ infoTables[4] = <<87, 80, 95, 79, 112, 116, 105, 111, 110, 115>>
  /\ fret.lines = <<<<87, 80, 95, 79, 112, 116, 105, 111, 110, 115>>,
                    <<119, 112, 95, 112, 111, 115, 116, 115>>,
                    <<119, 112, 95, 117, 115, 101, 114, 115>>>>

\* C29 (SpecFilter): a filter_table_names request whose pattern is missing
\* or empty has returned the error "pattern parameter is required" without a
\* call of the use case or of GetDatabaseInfo; a request with a pattern has
\* called the use case exactly once, with that pattern and with the database
\* ID the tool is bound to, or, when it is bound to none, with the last part
\* of the tool name.
PatternIsRequired ==
  fpc = "done"
  => IF ~freq.hasPattern \/ freq.pattern = <<>>
       THEN /\ fret.err = "pattern parameter is required"
            /\ fret.isNil
            /\ useCaseCalls = <<>>
            /\ infoCalls = 0
       ELSE /\ Len(useCaseCalls) = 1
            /\ infoCalls = 1
            /\ useCaseCalls[1].pattern = freq.pattern
            /\ useCaseCalls[1].dbID =
                 IF freq.dbID # "" THEN freq.dbID ELSE freq.name[Len(freq.name)]

\* A tool bound to no database and named filter_table_names_mydb has called
\* the use case for "mydb".
DatabaseIDFromToolName ==
  /\ fpc = "done"
  /\ freq.dbID = ""
  /\ freq.name = <<"filter", "table", "names", "mydb">>
  /\ useCaseCalls = <<[dbID |-> "mydb", pattern |-> <<119, 112, 95>>]>>
  /\ fret.err = ""

\* C30 (SpecConnString): the string ConnectionString returned is the string
\* it returns for every configuration that differs from the database's only
\* in another non-empty Password, when the Password is not empty, or only in
\* another non-empty EncryptionKey, when the EncryptionKey is not empty: in
\* every dialect the masked string is independent of the two secrets.
MaskedStringHidesSecrets ==
  cspc = "done"
  => /\ dConfig.Password # ""
          => \A password \in {"secret", "s3", "hunter2"} :
               ConnectionString([dConfig EXCEPT !.Password = password]) = connStr
     /\ dConfig.EncryptionKey # ""
          => \A key \in {"secret123", "k2", "0xfeed"} :
               ConnectionString([dConfig EXCEPT !.EncryptionKey = key]) = connStr

\* The masked string of an encrypted SQLite file with a password set names
\* the path and says "(encrypted)".
EncryptedSQLiteIsMasked ==
  /\ cspc = "done"
  /\ dConfig.Type = "sqlite"
  /\ dConfig.Password = "secret"
  /\ dConfig.EncryptionKey = "secret123"
  /\ connStr = "SQLite database: /path/to/db.sqlite (encrypted)"

\* C34 (as stated; SpecLegacyTx): once a commit or rollback request has
\* invoked the driver's terminator, the transaction is no longer in the
\* registry, so that no executor can find it while the request is in
\* progress.
RemovedBeforeTerminator ==
  \A r \in Reqs :
    tpc[r] = "remove" => targ[r].txID \notin DOMAIN activeTransactions

\* the error LoadConfig returns for a document: some entry fails validation
LoadConfigFails(doc) == \E i \in 1..Len(doc) : ~ValidEntry(doc[i])

\* C37 (as stated; SpecMgr): a LoadConfig call that returns an error stores
\* none of the connections of its document: Manager.configs is after the
\* call what it was before it.
FailedLoadStoresNothing ==
  [][loads' = loads + 1 =>
       \A doc \in ConfigDocs :
         LoadConfig(doc) /\ LoadConfigFails(doc) => configs' = configs]_allVars

\* C36 (as stated; SpecMgr): a Connect call, in the eager and in the lazy
\* mode, makes no open attempt for an id whose handle was installed when
\* the call began, and every handle installed then is still the installed
\* one, so that no earlier pool is left open without a reference.
ConnectOpensOnlyMissing ==
  \A p \in Procs :
    mpc[p] \in {"connect_lazy", "connect_eager", "connect_ret"} =>
      /\ \A i \in 1..Len(mattempts[p]) : mattempts[p][i].id \notin DOMAIN mpre[p]
      /\ \A id \in DOMAIN mpre[p] :
           id \in DOMAIN connections /\ connections[id] = mpre[p][id]

\* C40 (SpecMgr): in every reachable state the connected ids are configured
\* ids, and a GetDatabase(id) call made in the eager mode opens no pool: it
\* returns at once, with the installed handle if there is one and with the
\* error "connection not found" otherwise, also when id was closed before.
ConnectedAreConfiguredAndEagerGetOpensNothing ==
  /\ [](DOMAIN connections \subseteq DOMAIN configs)
  /\ [][\A p \in Procs :
          /\ mpc[p] = "idle"
          /\ mpc'[p] \in {"get_ret", "demand_wait"}
          /\ ~lazyLoading
          => /\ mpc'[p] = "get_ret"
             /\ openPools' = openPools
             /\ nextHandle' = nextHandle
             /\ connections' = connections
             /\ mret'[p] = IF mid'[p] \in DOMAIN connections
                           THEN HandleValue(connections[mid'[p]])
                           ELSE ErrValue("connection not found", mid'[p])]_allVars

\* in the eager mode GetDatabase answered "connection not found" for the one
\* configured id, whose pool was opened and closed before
EagerGetAfterClose ==
  \E p \in Procs :
    /\ ~lazyLoading
    /\ mpc[p] = "get_ret"
    /\ mret[p] = ErrValue("connection not found", mid[p])
    /\ DOMAIN configs = {mid[p]}
    /\ connections = EmptyMap
    /\ nextHandle = 1
    /\ openPools = {}

\* C38 (as stated; SpecBeginIDs): when a begin request of the per-database
\* tool returns, the driver transaction it opened is stored in the registry
\* under the ID of the request or has been rolled back, also when the begin
\* fails because the ID exists.
BeginStoresOrRollsBack ==
  \A r \in Reqs :
    /\ tpc[r] = "done"
    /\ targ[r].action = "begin"
    /\ targ[r].dbID = ToolDB
    /\ ttx[r] # 0
    => \/ sqlTx[ttx[r]].state = "rolledback"
       \/ /\ targ[r].txID \in DOMAIN transactions
          /\ transactions[targ[r].txID] = ttx[r]

\* the default of a pool setting for a dialect: the larger ones for oracle
PoolDefault(type, setting) ==
  CASE setting = "MaxOpenConns" -> IF type = "oracle" THEN 50 ELSE 25
    [] setting = "MaxIdleConns" -> IF type = "oracle" THEN 10 ELSE 5
    [] setting = "ConnMaxLifetime" -> IF type = "oracle" THEN 1800 ELSE 300
    [] setting = "ConnMaxIdleTime" -> 300

\* C31 (as stated; SpecConfig): SetDefaults leaves every pool setting the
\* configuration set (a value other than zero) as it is, for every dialect,
\* and gives an unset one the default of the dialect.
ExplicitPoolSettingsKept ==
  cfgpc = "SetDefaults" =>
    \A setting \in {"MaxOpenConns", "MaxIdleConns", "ConnMaxLifetime",
                    "ConnMaxIdleTime"} :
      cfgRes[setting] = IF connCfg[setting] # 0 THEN connCfg[setting]
                        ELSE PoolDefault(connCfg.Type, setting)

\* C32 (as stated; SpecConfig): the Oracle connection string has the TNS
\* form whenever a TNS alias is configured, otherwise the wallet form
\* whenever a wallet directory is configured, otherwise the EZ-connect form
\* with the service name, else the SID, else the name as identifier.
OraclePrefersTNSThenWallet ==
  cfgpc = "buildOracleConnStr" =>
    LET c == SetDefaults(connCfg)
        credentials == "oracle://" \o c.User \o ":" \o c.Password \o "@"
        identifier == IF c.ServiceName # "" THEN c.ServiceName
                      ELSE IF c.SID # "" THEN c.SID ELSE c.Name
    IN \E order \in ParamOrders :
         cfgRes =
           IF c.TNSEntry # ""
           THEN addOracleOptions(
                  credentials \o c.TNSEntry \o "?tns admin=" \o c.TNSAdmin,
                  TRUE, c, order)
           ELSE IF c.WalletLocation # ""
           THEN addOracleOptions(
                  credentials
                    \o (IF c.ServiceName # "" THEN c.ServiceName ELSE c.Name)
                    \o "?wallet location=" \o c.WalletLocation,
                  TRUE, c, order)
           ELSE addOracleOptions(
                  credentials \o c.Host \o ":" \o Itoa(c.Port) \o "/" \o identifier,
                  FALSE, c, order)

\* C35 (as stated; SpecConfig): for every dialect the handle made from a
\* connection's configuration answers QueryTimeout() with the configured
\* query timeout, or with 30 when none is configured, and keeps a
\* configured connect timeout.
TimeoutsReachTheHandle ==
  cfgpc = "NewDatabase" =>
    /\ QueryTimeout(cfgRes) = IF connCfg.QueryTimeout # 0
                              THEN connCfg.QueryTimeout ELSE 30
    /\ connCfg.ConnectTimeout # 0 =>
         cfgRes.config.ConnectTimeout = connCfg.ConnectTimeout

\* C33 (as stated; SpecStdioFair): every line the reader found malformed,
\* one that is not JSON or a request of another jsonrpc version, eventually
\* gets its error reply on stdout.
MalformedLineGetsReply ==
  \A k \in 1..MaxLines :
    (/\ Len(lineLog) >= k
     /\ \/ lineLog[k].line.kind = "invalid"
        \/ lineLog[k].line.kind = "request" /\ lineLog[k].line.jsonrpc # JSONRPCVersion)
    ~> (Len(lineLog) >= k /\ "replied" \in lineLog[k].done)

\* C39 (as stated; SpecStdio): no Send sends on a closed channel, whatever
\* the interleaving with Start and Stop: a Send that has returned delivered
\* its event or answered "transport not started", and none has panicked.
SendNeverMeetsClosedChannel ==
  \A c \in Callers :
    /\ cpc[c] # "send_panic"
    /\ cpc[c] = "send_ret" => cret[c] \in {"ok", "transport not started"}
    /\ cpc[c] = "sending" => ~chansClosed

=============================================================================
